---------------------------- MODULE Spec2Model ----------------------------
(***************************************************************************)
(* A model of invokeai/backend/model_management/model_manager.py: the      *)
(* registry mapping "type/name" keys to model stanzas (ModelManager).      *)
(*                                                                         *)
(* Strings and paths are sequences of tokens.  The tokens "/" and "." are  *)
(* the path separator and the suffix dot; every other token stands for a   *)
(* run of characters holding neither.  A stanza (one entry of models.yaml) *)
(* is a function from the field names it holds to their values, so that    *)
(* `"path" in stanza` is `"path" \in DOMAIN stanza`.                       *)
(***************************************************************************)
EXTENDS Integers, Sequences, FiniteSets, TLC

VARIABLES
    config,      \* self.config: key -> stanza (the "_version" tag is left out)
    cache_keys,  \* self.cache_keys: key -> key handed out by the ModelCache
    converted,   \* disk, per directory under converted_ckpts_dir: how often the converter wrote it
    files,       \* disk: the "<stem>.vae.<suffix>" files that exist
    last,        \* what the last call of the manager did and returned
    persisted,   \* disk: the document at the configuration path
    version,     \* self.config["_version"], None if the store has no such tag
    order,       \* the keys of self.config in the order of the mapping
    config_path, \* self.config_path, None if the store was given as an object
    backup,      \* disk: the document models.yaml.orig
    dirs,        \* disk: the directories under the models directory
    input,       \* argument of the pure function under check (codec)
    output,      \* its result
    threads,     \* the callers running concurrently: each one's position
    inodes,      \* disk: the files of the configuration directory
    artifacts    \* disk: the weights each converted directory was made from

vars ==
    <<config, cache_keys, converted, files, last, persisted, version, order,
      config_path, backup, dirs, input, output, threads, inodes, artifacts>>

---------------------------------------------------------------------------
(* Bounds *)

\* longest model name (in tokens) the key codec is run on
MaxNameLen == 3

\* most models in a store whose default model is set
MaxModels == 3

---------------------------------------------------------------------------
(* Token sequences *)

Slash == "/"
Dot == "."

\* Python's None where a path or a string is expected
None == <<>>

RECURSIVE FirstIndex(_, _, _)
\* index of the first occurrence of tok in s at or after i, 0 if there is none
FirstIndex(s, tok, i) ==
    IF i > Len(s) THEN 0
    ELSE IF s[i] = tok THEN i
    ELSE FirstIndex(s, tok, i + 1)

RECURSIVE LastIndex(_, _, _)
\* index of the last occurrence of tok in s at or before i, 0 if there is none
LastIndex(s, tok, i) ==
    IF i < 1 THEN 0
    ELSE IF s[i] = tok THEN i
    ELSE LastIndex(s, tok, i - 1)

\* all token sequences over alphabet of length 0..n
SeqsUpTo(alphabet, n) ==
    UNION {[1..k -> alphabet] : k \in 0..n}

---------------------------------------------------------------------------
(* Model types and the key codec *)

\* the values of the SDModelType enumeration
SDModelType ==
    {"diffusers", "ckpt", "vae", "text_encoder", "tokenizer", "unet",
     "scheduler", "safety_checker", "feature_extractor", "lora",
     "textual_inversion", "controlnet"}

\* f"{model_type}/{model_name}"
create_key(model_name, model_type) ==
    <<model_type, Slash>> \o model_name

\* a variant of parse_key that splits at the last "/" instead of the first
parse_key_rsplit(model_key) ==
    LET i == LastIndex(model_key, Slash, Len(model_key))
        model_type_str == SubSeq(model_key, 1, i - 1)
        model_name == SubSeq(model_key, i + 1, Len(model_key))
    IN  IF i = 0
        THEN [exc |-> "ValueError", name |-> None, type |-> "none"]
        ELSE IF Len(model_type_str) = 1 /\ model_type_str[1] \in SDModelType
        THEN [exc |-> "none", name |-> model_name, type |-> model_type_str[1]]
        ELSE [exc |-> "Exception", name |-> None, type |-> "none"]

\* a variant of parse_key that takes the prefix as the type without looking
\* it up in the enumeration
parse_key_unchecked(model_key) ==
    LET i == FirstIndex(model_key, Slash, 1)
    IN  IF i = 0
        THEN [exc |-> "ValueError", name |-> None, type |-> "none"]
        ELSE IF i = 2
        THEN [exc |-> "none", name |-> SubSeq(model_key, 3, Len(model_key)),
              type |-> model_key[1]]
        ELSE [exc |-> "Exception", name |-> None, type |-> "none"]

\* model_key.split('/', 1), then SDModelType(model_type_str):
\* exc is "none" on success, "ValueError" when the key holds no "/" (the
\* unpacking of a one-element list), "Exception" when the prefix is no type
parse_key(model_key) ==
    LET i == FirstIndex(model_key, Slash, 1)
        model_type_str == SubSeq(model_key, 1, i - 1)
        model_name == SubSeq(model_key, i + 1, Len(model_key))
    IN  IF i = 0
        THEN [exc |-> "ValueError", name |-> None, type |-> "none"]
        ELSE IF Len(model_type_str) = 1 /\ model_type_str[1] \in SDModelType
        THEN [exc |-> "none", name |-> model_name, type |-> model_type_str[1]]
        ELSE [exc |-> "Exception", name |-> None, type |-> "none"]

---------------------------------------------------------------------------
(* Paths (pathlib) *)

\* self.globals.root_dir, an absolute path
RootDir == <<Slash, "root">>

\* self.globals.converted_ckpts_dir
ConvertedDir == <<Slash, "root", Slash, "models", Slash, "converted_ckpts">>

\* pathlib's a / b: an absolute b replaces a
Join(a, b) ==
    IF Len(b) > 0 /\ b[1] = Slash THEN b ELSE a \o <<Slash>> \o b

\* index at which the suffix of the last component starts (its last dot, which
\* is neither the component's first nor its last character), Len(p) + 1 if none
SuffixStart(p) ==
    LET n == LastIndex(p, Slash, Len(p))
        d == LastIndex(p, Dot, Len(p))
    IN  IF d > n + 1 /\ d < Len(p) THEN d ELSE Len(p) + 1

\* Path.stem: the last component without its suffix
Stem(p) ==
    SubSeq(p, LastIndex(p, Slash, Len(p)) + 1, SuffixStart(p) - 1)

\* Path.with_suffix
WithSuffix(p, suffix) ==
    SubSeq(p, 1, SuffixStart(p) - 1) \o suffix

\* f".vae.{suffix}"
VaeSuffix(suffix) == <<Dot, "vae", Dot, suffix>>

---------------------------------------------------------------------------
(* Stanzas *)

\* stanza.get(field) is truthy: the field is there and not empty
Has(stanza, field) ==
    field \in DOMAIN stanza /\ stanza[field] # None

\* stanza.get(field) where a string or path is expected (None if absent)
Get(stanza, field) ==
    IF field \in DOMAIN stanza THEN stanza[field] ELSE None

\* The value of a "vae" field: a string (a path to VAE weights) or a mapping
\* with the keys path, repo_id, subfolder; a key of the mapping is there iff
\* its value is not None.
VaeStr(p) ==
    [kind |-> "str", value |-> p, path |-> None, repo_id |-> None, subfolder |-> None]

VaeDict(p, r, s) ==
    [kind |-> "dict", value |-> None, path |-> p, repo_id |-> r, subfolder |-> s]

\* isinstance(v, str) / isinstance(v, DictConfig)
IsStr(v) == v.kind = "str"
IsDict(v) == v.kind = "dict"

\* bool(v): a non-empty string, a mapping with at least one key
Truthy(v) ==
    \/ IsStr(v) /\ v.value # None
    \/ IsDict(v) /\ (v.path # None \/ v.repo_id # None \/ v.subfolder # None)

---------------------------------------------------------------------------
(* The ModelCache collaborator (model_cache.py), at its interface *)

\* the hash the cache computes for a location: a function of location and revision
HashOf(location, revision) ==
    <<"hash">> \o location \o <<"@">> \o revision

\* cache.model_hash(location, revision): Path(None) is a TypeError
CacheModelHash(location, revision) ==
    [exc |-> IF location = None THEN "TypeError" ELSE "none",
     hash |-> IF location = None THEN None ELSE HashOf(location, revision)]

\* the key of the context cache.get_model returns
CacheKey(location, model_type, revision, submodel) ==
    [location |-> location, type |-> model_type, revision |-> revision,
     submodel |-> submodel]

\* cache.get_model(location, model_type, revision, submodel)
CacheGetModel(location, model_type, revision, submodel) ==
    [exc |-> IF location = None THEN "TypeError" ELSE "none",
     key |-> CacheKey(location, model_type, revision, submodel)]

\* a call that was not made / that was made, as recorded in `last`
NoHashCall == [made |-> FALSE, location |-> None, revision |-> None]
HashCall(location, revision) ==
    [made |-> TRUE, location |-> location, revision |-> revision]
NoCacheCall ==
    [made |-> FALSE, location |-> None, type |-> "none", revision |-> None,
     submodel |-> "none"]
CacheCall(location, model_type, revision, submodel) ==
    [made |-> TRUE, location |-> location, type |-> model_type,
     revision |-> revision, submodel |-> submodel]

---------------------------------------------------------------------------
(* Conversion of checkpoints *)

\* the fallback VAE of _get_vae_for_conversion
DefaultVae == <<"stabilityai", Slash, "sd-vae-ft-mse">>

\* the loop over ["pt", "ckpt", "safetensors"]: the last suffix whose file
\* exists wins, None if no file exists
RECURSIVE SiblingVae(_, _, _, _)
SiblingVae(weights, fs, suffixes, found) ==
    IF suffixes = <<>> THEN found
    ELSE LET cand == WithSuffix(weights, VaeSuffix(Head(suffixes)))
         IN  SiblingVae(weights, fs, Tail(suffixes),
                        IF cand \in fs THEN cand ELSE found)

VaeSuffixes == <<"pt", "ckpt", "safetensors">>

NoVaeStanza == VaeDict(None, None, None)

\* _get_vae_for_conversion(weights, mconfig): the pair (vae_ckpt_path,
\* vae_model); vae_model is the location the VAE object was loaded from
\* through cache.get_model(location, SDModelType.Vae), None if none was loaded
get_vae_for_conversion(weights, mconfig, fs) ==
    LET vae_ckpt_path == SiblingVae(weights, fs, VaeSuffixes, None)
        vae_config == IF "vae" \in DOMAIN mconfig THEN mconfig["vae"] ELSE NoVaeStanza
        vae_diffusers_location ==
            IF Truthy(vae_config) /\ IsDict(vae_config)
            THEN IF vae_config.path # None
                 THEN Join(RootDir, vae_config.path)
                 ELSE vae_config.repo_id
            ELSE DefaultVae
    IN  IF vae_ckpt_path # None
        THEN [vae_ckpt_path |-> vae_ckpt_path, vae_model |-> None]
        ELSE IF Truthy(vae_config) /\ IsStr(vae_config)
        THEN [vae_ckpt_path |-> vae_config.value, vae_model |-> None]
        ELSE [vae_ckpt_path |-> None, vae_model |-> vae_diffusers_location]

\* what the converter was called with; vae is the location the VAE object
\* passed as `vae` was loaded from, vae_path the path passed as `vae_path`
NoConvArgs ==
    [weights |-> None, target |-> None, config |-> None, vae |-> None,
     vae_path |-> None]

\* whether a directory under converted_ckpts_dir exists
Exists(conv, path) ==
    path \in DOMAIN conv /\ conv[path] > 0

\* a variant of convert_ckpt_and_cache's cache test that never hits
CacheHit_never(conv, diffusers_path) == FALSE

\* diffusers_path.exists() in convert_ckpt_and_cache
CacheHit(conv, diffusers_path) == Exists(conv, diffusers_path)

\* convert_ckpt_and_cache(mconfig) on the disk (conv, fs), with the converter
\* ending as `outcome` ("ok": it wrote diffusers_path, "raise": it raised).
\* converter is "none" when the converter was not called; vae_resolved tells
\* whether _get_vae_for_conversion ran.
convert_ckpt_and_cache(mconfig, conv, fs, outcome) ==
    IF ~ ("weights" \in DOMAIN mconfig /\ "config" \in DOMAIN mconfig)
    THEN \* root_dir / mconfig.weights with no weights (or config) in the stanza
         [exc |-> "TypeError", path |-> None, converted |-> conv,
          converter |-> "none", vae_resolved |-> FALSE, args |-> NoConvArgs]
    ELSE
    LET weights == Join(RootDir, mconfig["weights"])
        config_file == Join(RootDir, mconfig["config"])
        diffusers_path == Join(ConvertedDir, Stem(weights))
        vae == get_vae_for_conversion(weights, mconfig, fs)
        args == [weights |-> weights, target |-> diffusers_path,
                 config |-> config_file, vae |-> vae.vae_model,
                 vae_path |-> IF vae.vae_ckpt_path # None
                              THEN Join(RootDir, vae.vae_ckpt_path)
                              ELSE None]
    IN  IF CacheHit(conv, diffusers_path)
        THEN [exc |-> "none", path |-> diffusers_path, converted |-> conv,
              converter |-> "none", vae_resolved |-> FALSE, args |-> NoConvArgs]
        ELSE IF outcome = "ok"
        THEN [exc |-> "none", path |-> diffusers_path,
              converted |-> [conv EXCEPT ![diffusers_path] = @ + 1],
              converter |-> "ok", vae_resolved |-> TRUE, args |-> args]
        ELSE \* no try/except around the converter: its exception propagates
             [exc |-> "ConversionError", path |-> None, converted |-> conv,
              converter |-> "raise", vae_resolved |-> TRUE, args |-> args]

---------------------------------------------------------------------------
(* get_model *)

\* the submodel override of a stanza: mconfig.get(submodel); the only
\* submodel the stanzas of this model override is the vae
Override(mconfig, submodel) ==
    IF submodel # "none" /\ submodel \in DOMAIN mconfig
    THEN mconfig[submodel]
    ELSE NoVaeStanza

\* a variant of lines 366-373 that prefers the weights
OtherLocation_weights_first(mconfig) ==
    IF Has(mconfig, "weights") THEN Join(RootDir, mconfig["weights"])
    ELSE IF Has(mconfig, "path") THEN Join(RootDir, mconfig["path"])
    ELSE IF Has(mconfig, "repo_id") THEN mconfig["repo_id"]
    ELSE None

\* lines 366-373: path, else repo_id, else weights, else None
OtherLocation(mconfig) ==
    IF Has(mconfig, "path") THEN Join(RootDir, mconfig["path"])
    ELSE IF Has(mconfig, "repo_id") THEN mconfig["repo_id"]
    ELSE IF Has(mconfig, "weights") THEN Join(RootDir, mconfig["weights"])
    ELSE None

\* lines 362-365: path, else mconfig.get('repo_id')
FolderLocation(mconfig) ==
    IF Has(mconfig, "path") THEN Join(RootDir, mconfig["path"])
    ELSE Get(mconfig, "repo_id")

\* a variant of the test of line 360 that forgets the safetensors format
IsCheckpointFormat_ckpt_only(mconfig) ==
    mconfig["format"] = "ckpt"

\* mconfig.format in ["ckpt", "safetensors"]
IsCheckpointFormat(mconfig) ==
    mconfig["format"] \in {"ckpt", "safetensors"}

\* model_key in self.config
KnownModel(cfg, model_name, model_type) ==
    create_key(model_name, model_type) \in DOMAIN cfg

\* a variant of lines 383-387 that keeps the parent's type and the submodel
ApplyOverride_keep_request(override, location, model_type, submodel) ==
    [location |-> IF override.path # None THEN override.path ELSE override.repo_id,
     type |-> model_type, submodel |-> submodel]

\* lines 383-387: the override's path or repo_id, the submodel as the type,
\* and no submodel
ApplyOverride(override, location, model_type, submodel) ==
    [location |-> IF override.path # None THEN override.path ELSE override.repo_id,
     type |-> submodel, submodel |-> "none"]

NoHash == <<"<NO_HASH>">>

\* the record `last` of a call that has done nothing yet
Blank(op, model_name, model_type, submodel) ==
    [op |-> op, name |-> model_name, type |-> model_type, submodel |-> submodel,
     exc |-> "none", delegated |-> FALSE, resolved |-> None,
     hash_call |-> NoHashCall, cache_call |-> NoCacheCall,
     converter |-> "none", vae_resolved |-> FALSE, conv_args |-> NoConvArgs,
     ret_name |-> None, ret_location |-> None, ret_type |-> "none",
     ret_hash |-> None, ret_revision |-> None, logged |-> "none",
     committed |-> FALSE, rename |-> "none", include_diffusers |-> FALSE,
     attributes |-> [f \in {} |-> None], clobber |-> FALSE,
     conf_file |-> None, thing |-> None, attempts |-> <<>>]

\* lines 395-416: the call of cache.get_model, the entry of cache_keys and
\* the SDModelInfo returned; l is the record of the call so far, req the
\* location, type and submodel asked of the cache
get_model_fetch(ck, conv, model_key, l, req, revision, hash) ==
    LET ctx == CacheGetModel(req.location, req.type, revision, req.submodel)
        l3 == [l EXCEPT !.cache_call =
                  CacheCall(req.location, req.type, revision, req.submodel)]
    IN  IF ctx.exc # "none"
        THEN [cache_keys |-> ck, converted |-> conv,
              last |-> [l3 EXCEPT !.exc = ctx.exc]]
        ELSE [cache_keys |-> (model_key :> ctx.key) @@ ck,
              converted |-> conv,
              last |-> [l3 EXCEPT !.ret_name = l.name,
                                  !.ret_type = IF req.submodel # "none"
                                               THEN req.submodel ELSE req.type,
                                  !.ret_hash = hash,
                                  !.ret_location = req.location,
                                  !.ret_revision = revision]]

\* lines 375-393: the hash of the resolved location, then the submodel
\* override
get_model_located(mconfig, ck, conv, model_key, l, location) ==
    LET revision == Get(mconfig, "revision")
        hashed == l.type \notin {"lora", "textual_inversion"}
        h == CacheModelHash(location, revision)
        l2 == [l EXCEPT !.resolved = location,
                        !.hash_call = IF hashed THEN HashCall(location, revision)
                                      ELSE NoHashCall]
        override == Override(mconfig, l.submodel)
        redirected == l.submodel # "none" /\ Truthy(override)
    IN  IF hashed /\ h.exc # "none"
        THEN [cache_keys |-> ck, converted |-> conv,
              last |-> [l2 EXCEPT !.exc = h.exc]]
        ELSE IF redirected /\ IsStr(override)
        THEN \* mconfig.get(submodel).get('path') on a string
             [cache_keys |-> ck, converted |-> conv,
              last |-> [l2 EXCEPT !.exc = "AttributeError"]]
        ELSE get_model_fetch(ck, conv, model_key, l2,
                 IF redirected
                 THEN ApplyOverride(override, location, l.type, l.submodel)
                 ELSE [location |-> location, type |-> l.type,
                       submodel |-> l.submodel],
                 revision,
                 IF hashed THEN h.hash ELSE NoHash)

\* lines 357-361: the stanza of a diffusers model in a checkpoint format; cv
\* is what convert_ckpt_and_cache did
get_model_converted(mconfig, ck, model_key, l, cv) ==
    LET l1 == [l EXCEPT !.delegated = TRUE, !.converter = cv.converter,
                        !.vae_resolved = cv.vae_resolved,
                        !.conv_args = cv.args]
    IN  IF cv.exc # "none"
        THEN [cache_keys |-> ck, converted |-> cv.converted,
              last |-> [l1 EXCEPT !.exc = cv.exc]]
        ELSE get_model_located(mconfig, ck, cv.converted, model_key, l1, cv.path)

\* lines 353-373: the stanza is known; the location tiers
get_model_known(mconfig, ck, conv, fs, model_key, l, outcome) ==
    IF l.type = "diffusers" /\ IsCheckpointFormat(mconfig)
    THEN get_model_converted(mconfig, ck, model_key, l,
             convert_ckpt_and_cache(mconfig, conv, fs, outcome))
    ELSE IF l.type = "diffusers"
    THEN get_model_located(mconfig, ck, conv, model_key, l,
             FolderLocation(mconfig))
    ELSE get_model_located(mconfig, ck, conv, model_key, l,
             OtherLocation(mconfig))

\* a variant of get_model that, when the key is absent, settles for a model
\* of the same name under another type
get_model_partial_match(cfg, ck, conv, fs, model_name, model_type, submodel, outcome) ==
    LET model_key == create_key(model_name, model_type)
        blank == Blank("get_model", model_name, model_type, submodel)
        same_name == {k \in DOMAIN cfg : parse_key(k).name = model_name}
        other == CHOOSE k \in same_name : TRUE
    IN  IF model_key \in DOMAIN cfg
        THEN get_model_known(cfg[model_key], ck, conv, fs, model_key, blank,
                             outcome)
        ELSE IF same_name = {}
        THEN [cache_keys |-> ck, converted |-> conv,
              last |-> [blank EXCEPT !.exc = "InvalidModelError"]]
        ELSE get_model_known(cfg[other], ck, conv, fs, other, blank, outcome)

\* get_model(model_name, model_type, submodel) in the state (cfg, ck, conv,
\* fs), the converter (if called) ending as `outcome`: the new cache_keys and
\* converted directories, and the record of the call
get_model(cfg, ck, conv, fs, model_name, model_type, submodel, outcome) ==
    LET model_key == create_key(model_name, model_type)
        blank == Blank("get_model", model_name, model_type, submodel)
    IN  IF ~ KnownModel(cfg, model_name, model_type)
        THEN [cache_keys |-> ck, converted |-> conv,
              last |-> [blank EXCEPT !.exc = "InvalidModelError"]]
        ELSE get_model_known(cfg[model_key], ck, conv, fs, model_key, blank,
                             outcome)

---------------------------------------------------------------------------
(* del_model, add_model, commit *)

\* del_model(model_name, model_type, delete_files): line 575 calls self.pop,
\* which ModelManager does not define, so the call ends in an AttributeError
\* before it has changed anything
del_model(cfg, ck, model_name, model_type, delete_files) ==
    [exc |-> "AttributeError", config |-> cfg, cache_keys |-> ck]

\* a variant of add_model that stores the attributes before it fails
add_model_assign_first(cfg, ck, model_name, model_type, model_attributes, clobber) ==
    [exc |-> "AttributeError",
     config |-> (create_key(model_name, model_type) :> model_attributes) @@ cfg,
     cache_keys |-> ck]

\* add_model(model_name, model_type, model_attributes, clobber): line 621
\* reads SDModelType.Fiffusers, which is no member of the enumeration, so the
\* call ends in an AttributeError before it has changed anything
add_model(cfg, ck, model_name, model_type, model_attributes, clobber) ==
    [exc |-> "AttributeError", config |-> cfg, cache_keys |-> ck]

\* a document on disk: the "_version" tag and the stanzas it holds
Doc(ver, models) == [exists |-> TRUE, version |-> ver, models |-> models]

\* no such file
NoDoc == [exists |-> FALSE, version |-> None, models |-> [f \in {} |-> None]]

\* commit(conf_file): the configuration file then holds the in-memory store,
\* its "_version" tag included (OmegaConf.to_yaml(self.config))
commit(ver, cfg) == Doc(ver, cfg)

\* a variant of commit_to that writes the configuration file of the root
\* directory when no path is known
commit_to_default_path(ver, cfg, conf_file, cfg_path, disk) ==
    [exc |-> "none", persisted |-> commit(ver, cfg)]

\* commit(conf_file) of a manager whose config_path is cfg_path, the
\* configuration file holding `disk`: lines 1176-1177 fail when neither path
\* is given, before anything is written
commit_to(ver, cfg, conf_file, cfg_path, disk) ==
    IF conf_file = None /\ cfg_path = None
    THEN [exc |-> "AssertionError", persisted |-> disk]
    ELSE [exc |-> "none", persisted |-> commit(ver, cfg)]

---------------------------------------------------------------------------
(* convert_and_import *)

\* Path.name: the last component
Name(p) ==
    SubSeq(p, LastIndex(p, Slash, Len(p)) + 1, Len(p))

\* line 1148: `return model_name` follows the try statement, whether or not
\* the except clause ran
ImportResult(model_name, failed) == model_name

\* convert_and_import(ckpt_path, diffusers_path, model_name, vae, vae_path,
\* commit_to_conf) in the state (ver, cfg, ck, conv, disk), the converter (if
\* called) ending as `outcome`
convert_and_import(ver, cfg, ck, conv, disk, ckpt_path, diffusers_path, model_name, vae, vae_path, commit_to_conf, outcome) ==
    LET blank == Blank("convert_and_import", model_name, "diffusers", "none")
        same == [config |-> cfg, cache_keys |-> ck, converted |-> conv,
                 persisted |-> disk]
    IN
    IF Exists(conv, diffusers_path)
    THEN same @@ [last |-> [blank EXCEPT !.logged = "error"]]
    ELSE
    LET name == IF model_name # None THEN model_name ELSE Name(diffusers_path)
        vae_location == IF vae.path # None THEN Join(RootDir, vae.path)
                        ELSE vae.repo_id
        vae_load == CacheGetModel(vae_location, "vae", None, "none")
        vae_failed == Truthy(vae) /\ vae_load.exc # "none"
        args == [weights |-> Join(RootDir, ckpt_path), target |-> diffusers_path,
                 config |-> None,
                 vae |-> IF Truthy(vae) THEN vae_location ELSE None,
                 vae_path |-> IF Truthy(vae) THEN None ELSE vae_path]
        converter == IF vae_failed THEN "none" ELSE outcome
        conv1 == IF converter = "ok"
                 THEN [conv EXCEPT ![diffusers_path] = @ + 1]
                 ELSE conv
        new_config == ("path" :> diffusers_path) @@ ("format" :> "diffusers")
        del == IF KnownModel(cfg, name, "diffusers")
               THEN del_model(cfg, ck, name, "diffusers", FALSE)
               ELSE [exc |-> "none", config |-> cfg, cache_keys |-> ck]
        add == add_model(del.config, del.cache_keys, name, "diffusers",
                         new_config, TRUE)
        installed == converter = "ok" /\ del.exc = "none" /\ add.exc = "none"
        failed == ~ installed
        l1 == [blank EXCEPT !.converter = converter,
                            !.conv_args = IF converter = "none" THEN NoConvArgs
                                          ELSE args,
                            !.logged = IF failed THEN "warning" ELSE "none",
                            !.committed = installed /\ commit_to_conf,
                            !.ret_name = ImportResult(name, failed)]
    IN  [config |-> IF installed THEN add.config
                    ELSE IF converter = "ok" /\ del.exc = "none" THEN del.config
                    ELSE cfg,
         cache_keys |-> IF installed THEN add.cache_keys ELSE ck,
         converted |-> conv1,
         persisted |-> IF installed /\ commit_to_conf THEN commit(ver, add.config)
                       ELSE disk,
         last |-> l1]

---------------------------------------------------------------------------
(* model_names, default_model, set_default_model *)

\* model_names(): parse_key of every key, in the order of the store; exc is
\* the exception of the first key that does not parse.  (The "_version"
\* entry is no mapping and is left out.)
model_names(cfg, ord) ==
    LET parsed == [i \in 1..Len(ord) |-> parse_key(ord[i])]
        bad == {i \in 1..Len(ord) : parsed[i].exc # "none"}
    IN  [exc |-> IF bad = {} THEN "none"
                 ELSE parsed[CHOOSE i \in bad : \A j \in bad : i <= j].exc,
         names |-> parsed]

\* stanza.get("default") is truthy
IsDefault(stanza) ==
    "default" \in DOMAIN stanza /\ stanza["default"] = TRUE

\* default_model(): the (name, type) of the first stanza in the order of the
\* store that has a truthy default; if there is none, line 427 returns
\* model_names()[0][0], the bare name of the first model (type "none" here),
\* and raises IndexError on a store without models
default_model(cfg, ord) ==
    LET mn == model_names(cfg, ord)
        defaults == {i \in 1..Len(ord) : IsDefault(cfg[ord[i]])}
        first == CHOOSE i \in defaults : \A j \in defaults : i <= j
    IN  IF mn.exc # "none"
        THEN [exc |-> mn.exc, name |-> None, type |-> "none"]
        ELSE IF defaults # {}
        THEN [exc |-> "none", name |-> mn.names[first].name,
              type |-> mn.names[first].type]
        ELSE IF Len(ord) = 0
        THEN [exc |-> "IndexError", name |-> None, type |-> "none"]
        ELSE [exc |-> "none", name |-> mn.names[1].name, type |-> "none"]

\* stanza.pop(field, None)
Pop(stanza, field) ==
    [f \in DOMAIN stanza \ {field} |-> stanza[f]]

\* a variant of set_default_model that sets the flag of the model asked for
\* and clears no other
set_default_model_no_clear(cfg, ord, model_name, model_type) ==
    IF ~ KnownModel(cfg, model_name, model_type)
    THEN [exc |-> "AssertionError", config |-> cfg]
    ELSE [exc |-> "none",
          config |-> [cfg EXCEPT ![create_key(model_name, model_type)] =
                         ("default" :> TRUE) @@ @]]

\* set_default_model(model_name, model_type): the loop of lines 437-439
\* rebinds model_name and model_type, so that line 440 sets the flag of the
\* last model of model_names()
set_default_model(cfg, ord, model_name, model_type) ==
    LET mn == model_names(cfg, ord)
        cleared == [k \in DOMAIN cfg |-> Pop(cfg[k], "default")]
        last_seen == mn.names[Len(ord)]
        key == create_key(last_seen.name, last_seen.type)
    IN  IF ~ KnownModel(cfg, model_name, model_type)
        THEN [exc |-> "AssertionError", config |-> cfg]
        ELSE IF mn.exc # "none"
        THEN [exc |-> mn.exc, config |-> cfg]
        ELSE [exc |-> "none",
              config |-> [cleared EXCEPT ![key] = ("default" :> TRUE) @@ @]]

---------------------------------------------------------------------------
(* The schema version and the configuration file *)

\* CONFIG_FILE_VERSION = '3.0.0': a version is the tuple of its release numbers
CONFIG_FILE_VERSION == <<3, 0, 0>>

\* the path of the models.yaml the store was loaded from
ConfigFile == <<Slash, "root", Slash, "configs", Slash, "models", Dot, "yaml">>

\* self.config.get("_version", "1.0.0"): the version of a store without a tag
DefaultVersion == <<1, 0, 0>>

\* a variant of the version test that also migrates a store of the current
\* version
VersionLess_or_equal(a, b) ==
    \/ a[1] < b[1]
    \/ a[1] = b[1] /\ a[2] < b[2]
    \/ a[1] = b[1] /\ a[2] = b[2] /\ a[3] <= b[3]

\* version.parse(a) < version.parse(b)
VersionLess(a, b) ==
    \/ a[1] < b[1]
    \/ a[1] = b[1] /\ a[2] < b[2]
    \/ a[1] = b[1] /\ a[2] = b[2] /\ a[3] < b[3]

---------------------------------------------------------------------------
(* _update_config_file_version *)

\* None where a format is expected
NoFormat == "none"

\* Path(p).suffix
Suffix(p) == SubSeq(p, SuffixStart(p), Len(p))

\* '/VAE/' in p
ContainsVAE(p) ==
    \E i \in 1..(Len(p) - 2) :
        p[i] = Slash /\ p[i + 1] = "VAE" /\ p[i + 2] = Slash

\* line 1265: the old way of attaching a legacy vae to a checkpoint model
IsLegacyVae(old_stanza) ==
    Has(old_stanza, "config") /\ ContainsVAE(old_stanza["config"])

\* lines 1268-1272: bare keys get the prefix 'diffusers/'
migrate_key(model_key) ==
    IF FirstIndex(model_key, Slash, 1) = 0
    THEN <<"diffusers", Slash>> \o model_key
    ELSE model_key

\* lines 1274-1281: the format of the new stanza
migrate_format(old_stanza) ==
    IF "format" \in DOMAIN old_stanza /\ old_stanza["format"] = "diffusers"
    THEN "folder"
    ELSE IF Has(old_stanza, "weights")
            /\ Suffix(old_stanza["weights"]) = <<Dot, "ckpt">>
    THEN "ckpt"
    ELSE IF Has(old_stanza, "weights")
            /\ Suffix(old_stanza["weights"]) = <<Dot, "safetensors">>
    THEN "safetensors"
    ELSE IF "format" \in DOMAIN old_stanza THEN old_stanza["format"]
    ELSE NoFormat

\* the fields line 1289 copies when they are truthy
CopiedFields == <<"repo_id", "path", "weights", "config", "vae">>

\* old_stanza.get(field) is truthy, for a field of CopiedFields
FieldTruthy(old_stanza, field) ==
    IF field = "vae"
    THEN "vae" \in DOMAIN old_stanza /\ Truthy(old_stanza["vae"])
    ELSE Has(old_stanza, field)

\* a variant of lines 1285-1291 that copies the whole old stanza and sets
\* the format
migrate_stanza_copy_all(old_stanza) ==
    ("format" :> migrate_format(old_stanza))
    @@ ("description" :> Get(old_stanza, "description"))
    @@ old_stanza

\* lines 1285-1291: the new stanza holds the description (None if the old
\* stanza has none), the format and the truthy fields among CopiedFields
migrate_stanza(old_stanza) ==
    LET kept == {CopiedFields[i] : i \in 1..Len(CopiedFields)}
        copied == {f \in kept : FieldTruthy(old_stanza, f)}
    IN  ("description" :> Get(old_stanza, "description"))
        @@ ("format" :> migrate_format(old_stanza))
        @@ [f \in copied |-> old_stanza[f]]

\* whether key is among the keys of the sequence ord
InOrder(ord, key) == \E i \in 1..Len(ord) : ord[i] = key

\* lines 1257-1291: the loop over the keys of the old store from the i-th
\* on; new_cfg and new_ord are the new store so far.  The "_version" entry
\* is the only entry that is no mapping and is skipped (line 1260).  An
\* assignment to a key the new store already holds replaces its stanza and
\* keeps its place.
RECURSIVE migrate_loop(_, _, _, _, _)
migrate_loop(cfg, ord, i, new_cfg, new_ord) ==
    IF i > Len(ord) THEN [config |-> new_cfg, order |-> new_ord]
    ELSE IF IsLegacyVae(cfg[ord[i]])
    THEN migrate_loop(cfg, ord, i + 1, new_cfg, new_ord)
    ELSE LET new_key == migrate_key(ord[i])
         IN  migrate_loop(cfg, ord, i + 1,
                 (new_key :> migrate_stanza(cfg[ord[i]])) @@ new_cfg,
                 IF InOrder(new_ord, new_key) THEN new_ord
                 ELSE Append(new_ord, new_key))

\* the store and the disk as a call of the migrator leaves them
\* (renamed: how the rename ended, "none" if none was tried)
Migrated(exc, ver, cfg, ord, disk, orig, logged, renamed) ==
    [exc |-> exc, version |-> ver, config |-> cfg, order |-> ord,
     persisted |-> disk, backup |-> orig, logged |-> logged,
     rename |-> renamed]

\* a variant of the migrator that writes the new document without keeping
\* the old one
update_config_file_version_no_backup(ver, cfg, ord, path, disk, orig, rename) ==
    LET current_version == IF ver = None THEN DefaultVersion ELSE ver
        new == migrate_loop(cfg, ord, 1, [f \in {} |-> None], <<>>)
    IN  IF ~ VersionLess(current_version, CONFIG_FILE_VERSION)
        THEN Migrated("none", ver, cfg, ord, disk, orig, "none", "none")
        ELSE IF path # None /\ rename = "raise"
        THEN Migrated("OSError", ver, cfg, ord, disk, orig, "warning", "raise")
        ELSE Migrated("none", CONFIG_FILE_VERSION, new.config, new.order,
                 IF path # None THEN commit(CONFIG_FILE_VERSION, new.config)
                 ELSE disk,
                 orig, "warning",
                 IF path # None THEN "ok" ELSE "none")

\* _update_config_file_version() on the store (ver, cfg, ord) loaded from
\* path, with the documents disk (at path) and orig (models.yaml.orig);
\* `rename` tells how old_file.replace(new_name) ends ("ok" or "raise")
update_config_file_version(ver, cfg, ord, path, disk, orig, rename) ==
    LET current_version == IF ver = None THEN DefaultVersion ELSE ver
        new == migrate_loop(cfg, ord, 1, [f \in {} |-> None], <<>>)
    IN  IF ~ VersionLess(current_version, CONFIG_FILE_VERSION)
        THEN Migrated("none", ver, cfg, ord, disk, orig, "none", "none")
        ELSE IF path # None /\ rename = "raise"
        THEN \* line 1252 raises before anything was changed
             Migrated("OSError", ver, cfg, ord, disk, orig, "warning", "raise")
        ELSE Migrated("none", CONFIG_FILE_VERSION, new.config, new.order,
                 IF path # None THEN commit(CONFIG_FILE_VERSION, new.config)
                 ELSE disk,
                 IF path # None THEN disk ELSE orig,
                 "warning",
                 IF path # None THEN "ok" ELSE "none")

---------------------------------------------------------------------------
(* _delete_defunct_models, scan_models_directory *)

\* self.globals.models_path
ModelsPath == RootDir \o <<Slash, "models">>

\* path.exists() on the disk (fs: the files, ds: the directories)
OnDisk(path, fs, ds) == path \in fs \/ path \in ds

\* a variant of _delete_defunct_models that removes nothing
delete_defunct_models_keep_all(cfg, ord, fs, ds) ==
    [config |-> cfg, order |-> ord, deleted |-> {}]

\* _delete_defunct_models(): the stanzas that have a path which is not on
\* the disk are removed, with a warning each; the "_version" entry has no
\* path
delete_defunct_models(cfg, ord, fs, ds) ==
    LET to_delete == {key \in DOMAIN cfg :
                        /\ "path" \in DOMAIN cfg[key]
                        /\ ~ OnDisk(Join(RootDir, cfg[key]["path"]), fs, ds)}
    IN  [config |-> [key \in DOMAIN cfg \ to_delete |-> cfg[key]],
         order |-> SelectSeq(ord, LAMBDA key : key \notin to_delete),
         deleted |-> to_delete]

\* p.split('/'): the components of p, each a token sequence
RECURSIVE SplitSlash(_)
SplitSlash(p) ==
    LET i == FirstIndex(p, Slash, 1)
    IN  IF i = 0 THEN <<p>>
        ELSE <<SubSeq(p, 1, i - 1)>> \o SplitSlash(SubSeq(p, i + 1, Len(p)))

\* parents[parents.index('models')+1:] for parents = root.split('/'); every
\* directory walked lies under ModelsPath, so 'models' is among the parents
Subpaths(root) ==
    LET parents == SplitSlash(root)
        index == CHOOSE i \in 1..Len(parents) :
                    /\ parents[i] = <<"models">>
                    /\ \A j \in 1..(i - 1) : parents[j] # <<"models">>
    IN  SubSeq(parents, index + 1, Len(parents))

\* a variant of the tests of lines 1330-1335 that walks the diffusers
\* directories whatever include_diffusers says
RootSkipped_always_include(subpaths, include_diffusers) ==
    Len(subpaths) < 2

\* lines 1330-1335: the directories whose entries are not registered
RootSkipped(subpaths, include_diffusers) ==
    \/ Len(subpaths) < 2
    \/ subpaths[2] = <<"diffusers">> /\ ~ include_diffusers

\* os.path.join(root, name)
PathJoin(root, name) == root \o <<Slash>> \o name

\* the names of the directories (files) in root, in the order `listing` in
\* which the operating system lists names
ChildDirs(root, ds, listing) ==
    SelectSeq(listing, LAMBDA name : PathJoin(root, name) \in ds)
ChildFiles(root, fs, listing) ==
    SelectSeq(listing, LAMBDA name : PathJoin(root, name) \in fs)

\* os.walk(top): top first, then the walk of each of its directories
RECURSIVE Walk(_, _, _)
RECURSIVE WalkEach(_, _, _, _)
Walk(top, ds, listing) ==
    IF top \notin ds THEN <<>>
    ELSE <<top>> \o WalkEach(top, ChildDirs(top, ds, listing), ds, listing)
WalkEach(top, names, ds, listing) ==
    IF names = <<>> THEN <<>>
    ELSE Walk(PathJoin(top, Head(names)), ds, listing)
         \o WalkEach(top, Tail(names), ds, listing)

\* lines 1338-1343: the key and the stanza of the directory d of root
scan_dir_entry(root, subpaths, d) ==
    [key |-> subpaths[2] \o <<Slash>> \o d,
     stanza |-> ("path" :> PathJoin(root, d))
                @@ ("description" :> subpaths[2] \o <<" model ">> \o d)
                @@ ("format" :> "folder")
                @@ ("base" :> subpaths[1])]

\* Path(f).suffix[1:]: the suffix without its dot, "" if there is none
FileFormat(f) ==
    IF SuffixStart(f) > Len(f) THEN "" ELSE f[Len(f)]

\* a variant of lines 1346-1353 that registers every file as a folder
scan_file_entry_as_folder(root, subpaths, f) ==
    [key |-> subpaths[2] \o <<Slash>> \o Stem(f),
     stanza |-> ("path" :> PathJoin(root, f))
                @@ ("description" :> subpaths[2] \o <<" model ">> \o Stem(f))
                @@ ("format" :> "folder")
                @@ ("base" :> subpaths[1])]

\* a variant of lines 1346-1353 that records the file as the weights of the
\* model as well as its path
scan_file_entry_path_and_weights(root, subpaths, f) ==
    [key |-> subpaths[2] \o <<Slash>> \o Stem(f),
     stanza |-> ("path" :> PathJoin(root, f))
                @@ ("weights" :> PathJoin(root, f))
                @@ ("description" :> subpaths[2] \o <<" model ">> \o Stem(f))
                @@ ("format" :> FileFormat(f))
                @@ ("base" :> subpaths[1])]

\* lines 1346-1353: the key and the stanza of the file f of root
scan_file_entry(root, subpaths, f) ==
    [key |-> subpaths[2] \o <<Slash>> \o Stem(f),
     stanza |-> ("path" :> PathJoin(root, f))
                @@ ("description" :> subpaths[2] \o <<" model ">> \o Stem(f))
                @@ ("format" :> FileFormat(f))
                @@ ("base" :> subpaths[1])]

\* lines 1328-1353 for one directory of the walk: the assignments made, in
\* their order (the directories, then the files)
RootEntries(root, fs, ds, include_diffusers, listing) ==
    LET subpaths == Subpaths(root)
        ds_here == ChildDirs(root, ds, listing)
        fs_here == ChildFiles(root, fs, listing)
    IN  IF RootSkipped(subpaths, include_diffusers) THEN <<>>
        ELSE [i \in 1..Len(ds_here) |->
                 scan_dir_entry(root, subpaths, ds_here[i])]
             \o [i \in 1..Len(fs_here) |->
                    scan_file_entry(root, subpaths, fs_here[i])]

\* the assignments of the whole walk
RECURSIVE WalkEntries(_, _, _, _, _)
WalkEntries(roots, fs, ds, include_diffusers, listing) ==
    IF roots = <<>> THEN <<>>
    ELSE RootEntries(Head(roots), fs, ds, include_diffusers, listing)
         \o WalkEntries(Tail(roots), fs, ds, include_diffusers, listing)

\* config[key] = stanza for each entry from the i-th on: a new key is
\* appended to the store, a key of the store keeps its place
RECURSIVE scan_assign(_, _, _, _)
scan_assign(entries, i, cfg, ord) ==
    IF i > Len(entries) THEN [config |-> cfg, order |-> ord]
    ELSE scan_assign(entries, i + 1,
             (entries[i].key :> entries[i].stanza) @@ cfg,
             IF InOrder(ord, entries[i].key) THEN ord
             ELSE Append(ord, entries[i].key))

\* scan_models_directory(include_diffusers) on the store (cfg, ord) and the
\* disk (fs, ds)
scan_models_directory(cfg, ord, fs, ds, include_diffusers, listing) ==
    LET pruned == delete_defunct_models(cfg, ord, fs, ds)
        scanned == scan_assign(
                       WalkEntries(Walk(ModelsPath, ds, listing), fs, ds,
                                   include_diffusers, listing),
                       1, pruned.config, pruned.order)
    IN  [config |-> scanned.config, order |-> scanned.order,
         deleted |-> pruned.deleted]

---------------------------------------------------------------------------
(* The stores and disks the manager is run on *)

P1 == <<"models", Slash, "sd15">>
R1 == <<"runwayml", Slash, "sd15">>
W1 == <<"ckpts", Slash, "m", Dot, "ckpt">>
W2 == <<"more", Slash, "m", Dot, "safetensors">>
Cfg1 == <<"configs", Slash, "v1-inference", Dot, "yaml">>
Rev1 == <<"fp16">>
VaeFile == <<"vaes", Slash, "v", Dot, "pt">>
VaeP == <<"models", Slash, "vae1">>
VaeR == <<"org", Slash, "vae2">>
Sub1 == <<"vae">>

Weights == {W1, W2}

\* the vae fields of the stanzas; a stanza may also have none
VaeFields ==
    {VaeStr(VaeFile), VaeDict(VaeP, None, None), VaeDict(None, VaeR, None),
     VaeDict(VaeP, VaeR, None), VaeDict(None, None, Sub1),
     VaeDict(None, None, None)}

Absent == [kind |-> "absent", value |-> None, path |-> None, repo_id |-> None, subfolder |-> None]

\* the empty stanza, the empty store
Empty == [f \in {} |-> None]

\* a stanza with the given format and, of the other fields, those that are
\* not None (not Absent); a stanza with weights names its config file, a
\* stanza with a repo_id its revision
MkStanza(fmt, p, r, rev, w, v) ==
    ("format" :> fmt)
    @@ (IF p # None THEN "path" :> p ELSE Empty)
    @@ (IF r # None THEN "repo_id" :> r ELSE Empty)
    @@ (IF rev # None THEN "revision" :> rev ELSE Empty)
    @@ (IF w # None THEN ("weights" :> w) @@ ("config" :> Cfg1) ELSE Empty)
    @@ (IF v # Absent THEN "vae" :> v ELSE Empty)

Formats == {"folder", "ckpt", "safetensors"}

\* every combination of a format, the location fields and a vae field
Stanzas ==
    {MkStanza(fmt, p, rr[1], rr[2], w, v) :
        fmt \in Formats, p \in {None, P1},
        rr \in {<<None, None>>, <<R1, Rev1>>},
        w \in {None, W1}, v \in {Absent} \cup VaeFields}

StoreNames == {<<"a">>}
StoreTypes == {"diffusers", "lora", "textual_inversion", "vae"}
RequestTypes == StoreTypes
Submodels == {"none", "vae"}
Outcomes == {"ok", "raise"}

\* the directories the converter may write
Targets == {Join(ConvertedDir, Stem(Join(RootDir, w))) : w \in Weights}

\* the VAE files that may lie next to the weights of a stanza
Siblings(stanza) ==
    IF "weights" \in DOMAIN stanza
    THEN {WithSuffix(Join(RootDir, stanza["weights"]), VaeSuffix(x)) :
            x \in {"pt", "safetensors"}}
    ELSE {}

NoInput == [name |-> None, type |-> "none"]
NoOutput == [stage |-> "none", key |-> None, name |-> None, type |-> "none", exc |-> "none"]

\* no caller is running concurrently; the configuration directory and the
\* provenance of the converted directories are left out
NoThreads == <<>>
NoInodes == <<>>
NoArtifacts == <<>>

---------------------------------------------------------------------------
(* Spec: get_model and convert_ckpt_and_cache on a store of one model *)

Init ==
    /\ \E n \in StoreNames, t \in StoreTypes, s \in Stanzas :
          /\ config = (create_key(n, t) :> s)
          /\ order = <<create_key(n, t)>>
          /\ files \in SUBSET Siblings(s)
    /\ cache_keys = Empty
    /\ converted = [t \in Targets |-> 0]
    /\ version = CONFIG_FILE_VERSION
    /\ config_path = ConfigFile
    /\ persisted = Doc(version, config)
    /\ backup = NoDoc
    /\ dirs = {}
    /\ last = Blank("none", None, "none", "none")
    /\ input = NoInput
    /\ output = NoOutput
    /\ threads = NoThreads
    /\ inodes = NoInodes
    /\ artifacts = NoArtifacts

GetModel ==
    \E n \in StoreNames, t \in RequestTypes, sm \in Submodels, o \in Outcomes :
        LET r == get_model(config, cache_keys, converted, files, n, t, sm, o)
        IN  /\ cache_keys' = r.cache_keys
            /\ converted' = r.converted
            /\ last' = r.last
            /\ UNCHANGED <<config, files, persisted, version, order, config_path,
                           backup, dirs, input, output,
                           threads, inodes, artifacts>>

ConvertCkptAndCache ==
    \E k \in DOMAIN config, o \in Outcomes :
        LET r == convert_ckpt_and_cache(config[k], converted, files, o)
            p == parse_key(k)
        IN  /\ converted' = r.converted
            /\ last' = [Blank("convert_ckpt_and_cache", p.name, p.type, "none")
                          EXCEPT !.exc = r.exc, !.converter = r.converter,
                                 !.vae_resolved = r.vae_resolved,
                                 !.conv_args = r.args, !.ret_location = r.path]
            /\ UNCHANGED <<config, cache_keys, files, persisted, version, order,
                           config_path, backup, dirs, input, output,
                           threads, inodes, artifacts>>

Next ==
    \/ GetModel
    \/ ConvertCkptAndCache

Spec == Init /\ [][Next]_vars

---------------------------------------------------------------------------
(* SpecImport: convert_and_import, with get_model, on a store of at most one
   model *)

ImportStanzas ==
    {MkStanza("folder", P1, None, None, None, Absent),
     MkStanza("ckpt", None, None, None, W1, Absent),
     MkStanza("safetensors", None, None, None, W2, VaeStr(VaeFile))}

InitImport ==
    /\ \/ config = Empty /\ order = <<>>
       \/ \E n \in StoreNames \cup {Stem(w) : w \in Weights},
             t \in {"diffusers", "lora"}, s \in ImportStanzas :
             /\ config = (create_key(n, t) :> s)
             /\ order = <<create_key(n, t)>>
    /\ files = {}
    /\ cache_keys = Empty
    /\ converted = [t \in Targets |-> 0]
    /\ version = CONFIG_FILE_VERSION
    /\ config_path = ConfigFile
    /\ persisted = Doc(version, config)
    /\ backup = NoDoc
    /\ dirs = {}
    /\ last = Blank("none", None, "none", "none")
    /\ input = NoInput
    /\ output = NoOutput
    /\ threads = NoThreads
    /\ inodes = NoInodes
    /\ artifacts = NoArtifacts

\* heuristic_import's call (lines 939-953): the target is converted_ckpts_dir
\* / stem, either a vae_path or the default VAE repository is passed, and a
\* commit to the configuration file is asked for
ConvertAndImport ==
    \E w \in Weights, n \in {None} \cup StoreNames, o \in Outcomes,
       v \in {[vae |-> VaeDict(None, DefaultVae, None), vae_path |-> None],
              [vae |-> VaeDict(None, None, None), vae_path |-> VaeFile]} :
        LET r == convert_and_import(version, config, cache_keys, converted, persisted,
                     w, Join(ConvertedDir, Stem(Join(RootDir, w))), n,
                     v.vae, v.vae_path, TRUE, o)
        IN  /\ config' = r.config
            /\ cache_keys' = r.cache_keys
            /\ converted' = r.converted
            /\ persisted' = r.persisted
            /\ last' = r.last
            /\ UNCHANGED <<files, version, order, config_path, backup, dirs,
                           input, output,
                           threads, inodes, artifacts>>

NextImport ==
    \/ ConvertAndImport
    \/ GetModel

SpecImport == InitImport /\ [][NextImport]_vars

---------------------------------------------------------------------------
(* SpecCodec: the key codec on every type and every name of at most MaxNameLen
   tokens *)

CodecNames == SeqsUpTo({"a", Slash}, MaxNameLen)

InitCodec ==
    /\ input \in [name : CodecNames, type : SDModelType]
    /\ output = NoOutput
    /\ threads = NoThreads
    /\ inodes = NoInodes
    /\ artifacts = NoArtifacts
    /\ config = Empty
    /\ order = <<>>
    /\ files = {}
    /\ cache_keys = Empty
    /\ converted = [t \in Targets |-> 0]
    /\ version = CONFIG_FILE_VERSION
    /\ config_path = ConfigFile
    /\ persisted = Doc(version, config)
    /\ backup = NoDoc
    /\ dirs = {}
    /\ last = Blank("none", None, "none", "none")

\* key = create_key(name, type)
Encode ==
    /\ output.stage = "none"
    /\ output' = [output EXCEPT !.stage = "key",
                                !.key = create_key(input.name, input.type)]
    /\ UNCHANGED <<config, cache_keys, converted, files, last, persisted, version,
                   order, config_path, backup, dirs, input,
                           threads, inodes, artifacts>>

\* (name, type) = parse_key(key)
Decode ==
    /\ output.stage = "key"
    /\ LET r == parse_key(output.key)
       IN  output' = [output EXCEPT !.stage = "parsed", !.name = r.name,
                                    !.type = r.type, !.exc = r.exc]
    /\ UNCHANGED <<config, cache_keys, converted, files, last, persisted, version,
                   order, config_path, backup, dirs, input,
                           threads, inodes, artifacts>>

NextCodec ==
    \/ Encode
    \/ Decode

SpecCodec == InitCodec /\ [][NextCodec]_vars

---------------------------------------------------------------------------
(* SpecMigrate: _update_config_file_version on the stores of every version
   that __init__ may have loaded *)

W3 == <<"ckpts", Slash, "m", Dot, "pt">>
VaeCfg == <<"configs", Slash, "VAE", Slash, "vae", Dot, "yaml">>
Desc1 == <<"a description">>

\* the fields of an old stanza that are neither its format nor among
\* CopiedFields
Extras ==
    ("description" :> Desc1) @@ ("default" :> TRUE) @@ ("revision" :> Rev1)
    @@ ("width" :> 512) @@ ("height" :> 512)

\* a stanza of an old store: loc and extras are the mappings of its location
\* and of its other fields, the other arguments are left out when None
MkOldStanza(fmt, loc, w, c, v, extras) ==
    (IF fmt # NoFormat THEN "format" :> fmt ELSE Empty)
    @@ loc
    @@ (IF w # None THEN "weights" :> w ELSE Empty)
    @@ (IF c # None THEN "config" :> c ELSE Empty)
    @@ (IF v # Absent THEN "vae" :> v ELSE Empty)
    @@ extras

OldStanzas ==
    {MkOldStanza(fmt, loc, w, c, v, x) :
        fmt \in {NoFormat, "diffusers", "ckpt", "pt"},
        loc \in {Empty, "path" :> P1, "repo_id" :> R1},
        w \in {None, W1, W2, W3},
        c \in {None, Cfg1, VaeCfg},
        v \in {Absent, VaeStr(VaeFile)},
        x \in {Empty, Extras}}

\* the stanzas of the old stores of two models: a checkpoint, a diffusers
\* repository, a legacy vae and a checkpoint in another format
PairStanzas ==
    {MkOldStanza(NoFormat, Empty, W1, Cfg1, Absent, Extras),
     MkOldStanza("diffusers", "repo_id" :> R1, None, None, Absent, Extras),
     MkOldStanza(NoFormat, Empty, W3, VaeCfg, Absent, Empty),
     MkOldStanza("pt", "path" :> P1, None, None, VaeStr(VaeFile), Empty)}

\* bare and prefixed keys
OldKeys == {<<"a">>, <<"diffusers", Slash, "a">>, <<"lora", Slash, "b">>}

Versions == {None, <<1, 0, 0>>, <<2, 0, 0>>, CONFIG_FILE_VERSION, <<3, 1, 0>>}

\* a models.yaml.orig left by an earlier run
OldBackup == Doc(<<1, 0, 0>>, Empty)

InitMigrate ==
    /\ \/ config = Empty /\ order = <<>>
       \/ \E k \in OldKeys, st \in OldStanzas :
             config = (k :> st) /\ order = <<k>>
       \/ \E k1 \in OldKeys, k2 \in OldKeys, s1 \in PairStanzas, s2 \in PairStanzas :
             /\ k1 # k2
             /\ config = (k1 :> s1) @@ (k2 :> s2)
             /\ order = <<k1, k2>>
    /\ version \in Versions
    /\ config_path \in {None, ConfigFile}
    /\ persisted = IF config_path # None THEN Doc(version, config) ELSE NoDoc
    /\ backup \in {NoDoc, OldBackup}
    /\ files = {}
    /\ dirs = {}
    /\ cache_keys = Empty
    /\ converted = [t \in Targets |-> 0]
    /\ last = Blank("none", None, "none", "none")
    /\ input = NoInput
    /\ output = NoOutput
    /\ threads = NoThreads
    /\ inodes = NoInodes
    /\ artifacts = NoArtifacts

UpdateConfigFileVersion ==
    \E rename \in Outcomes :
        LET r == update_config_file_version(version, config, order, config_path,
                                            persisted, backup, rename)
        IN  /\ version' = r.version
            /\ config' = r.config
            /\ order' = r.order
            /\ persisted' = r.persisted
            /\ backup' = r.backup
            /\ last' = [Blank("_update_config_file_version", None, "none", "none")
                          EXCEPT !.exc = r.exc, !.logged = r.logged,
                                 !.rename = r.rename]
            /\ UNCHANGED <<cache_keys, converted, files, config_path, dirs, input,
                           output,
                           threads, inodes, artifacts>>

NextMigrate ==
    UpdateConfigFileVersion

SpecMigrate == InitMigrate /\ [][NextMigrate]_vars

---------------------------------------------------------------------------
(* SpecDefault: set_default_model, default_model and del_model on stores of
   up to MaxModels models *)

\* the keys of the stores
DefaultKeys ==
    {create_key(<<"a">>, "diffusers"), create_key(<<"b">>, "diffusers"),
     create_key(<<"a">>, "lora"), create_key(<<"c">>, "vae")}

\* the names and types asked for
DefaultNames == {<<"a">>, <<"b">>, <<"c">>}
DefaultTypes == {"diffusers", "lora", "vae"}

\* a folder model, without a default field or with the given one
FolderStanza == ("format" :> "folder") @@ ("path" :> P1)
DefaultFlags == {Empty, "default" :> TRUE, "default" :> FALSE}

\* the sequences without repetition over S of length 0..n
RECURSIVE OrdersUpTo(_, _)
OrdersUpTo(S, n) ==
    IF n = 0 THEN {<<>>}
    ELSE LET shorter == OrdersUpTo(S, n - 1)
         IN  shorter \cup
             {Append(o, k) : o \in {x \in shorter : Len(x) = n - 1},
                             k \in S}

InitDefault ==
    /\ order \in {o \in OrdersUpTo(DefaultKeys, MaxModels) :
                     \A i, j \in 1..Len(o) : i # j => o[i] # o[j]}
    /\ config \in [{order[i] : i \in 1..Len(order)} ->
                       {d @@ FolderStanza : d \in DefaultFlags}]
    /\ version = CONFIG_FILE_VERSION
    /\ config_path = ConfigFile
    /\ persisted = Doc(version, config)
    /\ backup = NoDoc
    /\ files = {}
    /\ dirs = {}
    /\ cache_keys = Empty
    /\ converted = [t \in Targets |-> 0]
    /\ last = Blank("none", None, "none", "none")
    /\ input = NoInput
    /\ output = NoOutput
    /\ threads = NoThreads
    /\ inodes = NoInodes
    /\ artifacts = NoArtifacts

SetDefaultModel ==
    \E n \in DefaultNames, t \in DefaultTypes :
        LET r == set_default_model(config, order, n, t)
        IN  /\ config' = r.config
            /\ last' = [Blank("set_default_model", n, t, "none")
                          EXCEPT !.exc = r.exc]
            /\ UNCHANGED <<cache_keys, converted, files, persisted, version,
                           order, config_path, backup, dirs, input, output,
                           threads, inodes, artifacts>>

DefaultModel ==
    LET r == default_model(config, order)
    IN  /\ last' = [Blank("default_model", None, "none", "none")
                      EXCEPT !.exc = r.exc, !.ret_name = r.name,
                             !.ret_type = r.type]
        /\ UNCHANGED <<config, cache_keys, converted, files, persisted, version,
                       order, config_path, backup, dirs, input, output,
                           threads, inodes, artifacts>>

DelModel ==
    \E n \in DefaultNames, t \in DefaultTypes, delete_files \in BOOLEAN :
        LET r == del_model(config, cache_keys, n, t, delete_files)
        IN  /\ config' = r.config
            /\ cache_keys' = r.cache_keys
            /\ order' = SelectSeq(order, LAMBDA k : k \in DOMAIN r.config)
            /\ last' = [Blank("del_model", n, t, "none") EXCEPT !.exc = r.exc]
            /\ UNCHANGED <<converted, files, persisted, version, config_path,
                           backup, dirs, input, output,
                           threads, inodes, artifacts>>

NextDefault ==
    \/ SetDefaultModel
    \/ DefaultModel
    \/ DelModel

SpecDefault == InitDefault /\ [][NextDefault]_vars

---------------------------------------------------------------------------
(* SpecScan: scan_models_directory on a models directory whose entries come
   and go, from the store a manager has after its construction *)

\* the files of the disk: two files of the same stem in the lora directories
\* of two bases, a file one level below the models directory, a file inside
\* a diffusers model, a file outside the models directory
ScanLoraFile == ModelsPath \o <<Slash, "SD-1", Slash, "lora", Slash, "foo", Dot, "safetensors">>
ScanLoraFile2 == ModelsPath \o <<Slash, "SD-2", Slash, "lora", Slash, "foo", Dot, "pt">>
ScanTopFile == ModelsPath \o <<Slash, "SD-1", Slash, "top", Dot, "pt">>
ScanIndexFile == ModelsPath \o <<Slash, "SD-1", Slash, "diffusers", Slash, "sd15", Slash, "model_index", Dot, "json">>
OutsideFile == RootDir \o <<Slash, "elsewhere", Slash, "foo", Dot, "ckpt">>
ScanFiles == {ScanLoraFile, ScanLoraFile2, ScanTopFile, ScanIndexFile, OutsideFile}

\* the directories of the disk that need hold no file: a lora in folder
\* format of the name of the lora files, a diffusers model
ScanLoraDir == ModelsPath \o <<Slash, "SD-1", Slash, "lora", Slash, "foo">>
ScanDiffusersDir == ModelsPath \o <<Slash, "SD-1", Slash, "diffusers", Slash, "sd15">>
ScanDirs == {ScanLoraDir, ScanDiffusersDir}

\* the directories above p
Ancestors(p) == {SubSeq(p, 1, i - 1) : i \in {j \in 2..Len(p) : p[j] = Slash}}

\* whether p is d or lies below d
Below(p, d) == Len(p) >= Len(d) /\ SubSeq(p, 1, Len(d)) = d
                 /\ (Len(p) = Len(d) \/ p[Len(d) + 1] = Slash)

\* the directories of a disk with the files fs and the directories ds of
\* ScanDirs: these, and the directories above them
DiskDirs(fs, ds) == ds \cup UNION {Ancestors(p) : p \in fs \cup ds}

\* the names of the entries, in an order of listing; os.walk lists a
\* directory with os.scandir, whose order is arbitrary
ScanNames ==
    << <<"SD-1">>, <<"SD-2">>, <<"lora">>, <<"diffusers">>, <<"foo">>,
       <<"sd15">>, <<"foo", Dot, "safetensors">>, <<"foo", Dot, "pt">>,
       <<"top", Dot, "pt">>, <<"model_index", Dot, "json">> >>
Listings ==
    {ScanNames, [i \in 1..Len(ScanNames) |-> ScanNames[Len(ScanNames) + 1 - i]]}

\* the stanzas of models.yaml that no scan wrote: a model of the hub (no
\* path), which every store holds, a lora outside the models directory, a
\* diffusers model given by a path relative to the root directory
LoadedKeys == << <<"vae", Slash, "r">>, <<"lora", Slash, "foo">>, <<"diffusers", Slash, "sd15">> >>
LoadedStanza(key) ==
    IF key = <<"vae", Slash, "r">>
    THEN ("repo_id" :> R1) @@ ("format" :> "diffusers")
    ELSE IF key = <<"lora", Slash, "foo">>
    THEN ("path" :> OutsideFile) @@ ("format" :> "ckpt")
         @@ ("description" :> Desc1)
    ELSE ("path" :> <<"models", Slash, "SD-1", Slash, "diffusers", Slash, "sd15">>)
         @@ ("format" :> "diffusers")

\* __init__ (lines 255-278) on a models.yaml of the current version: the
\* store is loaded, then scan_models_directory(include_diffusers=False)
InitScan ==
    /\ \E fs \in SUBSET ScanFiles, ds \in SUBSET ScanDirs :
          /\ files = fs
          /\ dirs = DiskDirs(fs, ds)
    /\ \E keys \in {ks \in SUBSET {LoadedKeys[i] : i \in 1..Len(LoadedKeys)} :
                        LoadedKeys[1] \in ks},
          listing \in Listings :
          LET loaded == [key \in keys |-> LoadedStanza(key)]
              r == scan_models_directory(loaded,
                       SelectSeq(LoadedKeys, LAMBDA key : key \in keys),
                       files, dirs, FALSE, listing)
          IN  /\ config = r.config
              /\ order = r.order
              /\ persisted = Doc(CONFIG_FILE_VERSION, loaded)
    /\ version = CONFIG_FILE_VERSION
    /\ config_path = ConfigFile
    /\ backup = NoDoc
    /\ cache_keys = Empty
    /\ converted = [t \in Targets |-> 0]
    /\ last = Blank("none", None, "none", "none")
    /\ input = NoInput
    /\ output = NoOutput
    /\ threads = NoThreads
    /\ inodes = NoInodes
    /\ artifacts = NoArtifacts

ScanModelsDirectory ==
    \E include_diffusers \in BOOLEAN, listing \in Listings :
        LET r == scan_models_directory(config, order, files, dirs,
                                       include_diffusers, listing)
        IN  /\ config' = r.config
            /\ order' = r.order
            /\ last' = [Blank("scan_models_directory", None, "none", "none")
                          EXCEPT !.include_diffusers = include_diffusers,
                                 !.logged = IF r.deleted = {} THEN "none"
                                            ELSE "warning"]
            /\ UNCHANGED <<cache_keys, converted, files, persisted, version,
                           config_path, backup, dirs, input, output,
                           threads, inodes, artifacts>>

\* a file or a model directory is removed from the disk, with all it holds
\* and with the directories it leaves empty
RemoveEntry ==
    \E p \in files \cup (dirs \cap ScanDirs) :
        /\ files' = {f \in files : ~ Below(f, p)}
        /\ dirs' = DiskDirs(files', {d \in dirs \cap ScanDirs : ~ Below(d, p)})
        /\ last' = Blank("none", None, "none", "none")
        /\ UNCHANGED <<config, cache_keys, converted, persisted, version,
                       order, config_path, backup, input, output,
                           threads, inodes, artifacts>>

\* a file or a directory is put on the disk, with the directories above it
AddEntry ==
    \/ \E f \in ScanFiles \ files :
          /\ files' = files \cup {f}
          /\ dirs' = dirs \cup Ancestors(f)
          /\ last' = Blank("none", None, "none", "none")
          /\ UNCHANGED <<config, cache_keys, converted, persisted, version,
                         order, config_path, backup, input, output,
                           threads, inodes, artifacts>>
    \/ \E d \in ScanDirs \ dirs :
          /\ dirs' = dirs \cup {d} \cup Ancestors(d)
          /\ last' = Blank("none", None, "none", "none")
          /\ UNCHANGED <<config, cache_keys, converted, files, persisted,
                         version, order, config_path, backup, input, output,
                           threads, inodes, artifacts>>

NextScan ==
    \/ ScanModelsDirectory
    \/ RemoveEntry
    \/ AddEntry

SpecScan == InitScan /\ [][NextScan]_vars

---------------------------------------------------------------------------
(* SpecFacade: get_model, add_model, del_model, set_default_model, commit and
   scan_models_directory on the store a manager has after its construction *)

FacadeFiles == {ScanLoraFile, OutsideFile}
\* the models asked for: the lora of the disk, the vae of the hub, a model
\* no store holds
FacadeRequests ==
    {[name |-> <<"foo">>, type |-> "lora"], [name |-> <<"r">>, type |-> "vae"],
     [name |-> <<"r">>, type |-> "lora"]}

\* the attributes add_model is given: those of a lora, the same without a
\* description, those of a diffusers model of the hub
LoraAttributes ==
    ("format" :> "lora") @@ ("weights" :> W1) @@ ("description" :> Desc1)
HubAttributes ==
    ("format" :> "diffusers") @@ ("repo_id" :> R1) @@ ("description" :> Desc1)
AddRequests ==
    {[name |-> <<"foo">>, type |-> "lora", attributes |-> LoraAttributes, clobber |-> FALSE],
     [name |-> <<"foo">>, type |-> "lora", attributes |-> LoraAttributes, clobber |-> TRUE],
     [name |-> <<"new">>, type |-> "lora", attributes |-> LoraAttributes, clobber |-> FALSE],
     [name |-> <<"new">>, type |-> "lora",
      attributes |-> ("format" :> "lora") @@ ("weights" :> W1), clobber |-> TRUE],
     [name |-> <<"new">>, type |-> "diffusers", attributes |-> HubAttributes, clobber |-> FALSE]}

\* __init__ (lines 255-278): the store is given by the path of models.yaml
\* or as an object (config_path is None), then scanned
InitFacade ==
    /\ files \in SUBSET FacadeFiles
    /\ dirs = DiskDirs(files, {})
    /\ config_path \in {ConfigFile, None}
    /\ \E keys \in {{LoadedKeys[1]}, {LoadedKeys[1], LoadedKeys[2]}} :
          LET loaded == [key \in keys |-> LoadedStanza(key)]
              r == scan_models_directory(loaded,
                       SelectSeq(LoadedKeys, LAMBDA key : key \in keys),
                       files, dirs, FALSE, ScanNames)
          IN  /\ config = r.config
              /\ order = r.order
              /\ persisted = IF config_path = None THEN NoDoc
                             ELSE Doc(CONFIG_FILE_VERSION, loaded)
    /\ version = CONFIG_FILE_VERSION
    /\ backup = NoDoc
    /\ cache_keys = Empty
    /\ converted = [t \in Targets |-> 0]
    /\ last = Blank("none", None, "none", "none")
    /\ input = NoInput
    /\ output = NoOutput
    /\ threads = NoThreads
    /\ inodes = NoInodes
    /\ artifacts = NoArtifacts

FacadeGetModel ==
    \E q \in FacadeRequests :
        LET n == q.name
            t == q.type
            r == get_model(config, cache_keys, converted, files, n, t, "none",
                           "ok")
        IN  /\ cache_keys' = r.cache_keys
            /\ converted' = r.converted
            /\ last' = r.last
            /\ UNCHANGED <<config, files, persisted, version, order, config_path,
                           backup, dirs, input, output, threads, inodes,
                           artifacts>>

FacadeAddModel ==
    \E q \in AddRequests :
        LET n == q.name
            t == q.type
            a == q.attributes
            clobber == q.clobber
            r == add_model(config, cache_keys, n, t, a, clobber)
        IN  /\ config' = r.config
            /\ cache_keys' = r.cache_keys
            /\ order' = IF InOrder(order, create_key(n, t))
                           \/ create_key(n, t) \notin DOMAIN r.config
                        THEN order ELSE Append(order, create_key(n, t))
            /\ last' = [Blank("add_model", n, t, "none")
                          EXCEPT !.exc = r.exc, !.attributes = a,
                                 !.clobber = clobber]
            /\ UNCHANGED <<converted, files, persisted, version, config_path,
                           backup, dirs, input, output, threads, inodes,
                           artifacts>>

FacadeDelModel ==
    \E q \in FacadeRequests :
        LET n == q.name
            t == q.type
            r == del_model(config, cache_keys, n, t, FALSE)
        IN  /\ config' = r.config
            /\ cache_keys' = r.cache_keys
            /\ order' = SelectSeq(order, LAMBDA k : k \in DOMAIN r.config)
            /\ last' = [Blank("del_model", n, t, "none") EXCEPT !.exc = r.exc]
            /\ UNCHANGED <<converted, files, persisted, version, config_path,
                           backup, dirs, input, output, threads, inodes,
                           artifacts>>

FacadeSetDefaultModel ==
    \E q \in FacadeRequests :
        LET n == q.name
            t == q.type
            r == set_default_model(config, order, n, t)
        IN  /\ config' = r.config
            /\ last' = [Blank("set_default_model", n, t, "none")
                          EXCEPT !.exc = r.exc]
            /\ UNCHANGED <<cache_keys, converted, files, persisted, version,
                           order, config_path, backup, dirs, input, output,
                           threads, inodes, artifacts>>

FacadeCommit ==
    \E conf_file \in {None, ConfigFile} :
        LET r == commit_to(version, config, conf_file, config_path, persisted)
        IN  /\ persisted' = r.persisted
            /\ last' = [Blank("commit", None, "none", "none")
                          EXCEPT !.exc = r.exc, !.committed = (r.exc = "none"),
                                 !.conf_file = conf_file]
            /\ UNCHANGED <<config, cache_keys, converted, files, version, order,
                           config_path, backup, dirs, input, output, threads,
                           inodes, artifacts>>

FacadeScan ==
    \E include_diffusers \in BOOLEAN :
        LET r == scan_models_directory(config, order, files, dirs,
                                       include_diffusers, ScanNames)
        IN  /\ config' = r.config
            /\ order' = r.order
            /\ last' = [Blank("scan_models_directory", None, "none", "none")
                          EXCEPT !.include_diffusers = include_diffusers,
                                 !.logged = IF r.deleted = {} THEN "none"
                                            ELSE "warning"]
            /\ UNCHANGED <<cache_keys, converted, files, persisted, version,
                           config_path, backup, dirs, input, output, threads,
                           inodes, artifacts>>

\* a model file is removed from the disk, or put on it
FacadeDisk ==
    \E f \in FacadeFiles :
        /\ files' = IF f \in files THEN files \ {f} ELSE files \cup {f}
        /\ dirs' = DiskDirs(files', {})
        /\ last' = Blank("none", None, "none", "none")
        /\ UNCHANGED <<config, cache_keys, converted, persisted, version,
                       order, config_path, backup, input, output, threads,
                       inodes, artifacts>>

NextFacade ==
    \/ FacadeGetModel
    \/ FacadeAddModel
    \/ FacadeDelModel
    \/ FacadeSetDefaultModel
    \/ FacadeCommit
    \/ FacadeScan
    \/ FacadeDisk

SpecFacade == InitFacade /\ [][NextFacade]_vars

---------------------------------------------------------------------------
(* SpecCommit: commit (lines 1171-1183) called by two callers at a time.  The
   configuration directory is a set of inodes with the two names
   new_config.tmp and models.yaml; a caller writes through the descriptor it
   opened, whatever name the inode has by then. *)

Threads == {1, 2}
InodeIds == {1, 2, 3}

\* the two strings a commit writes; the yaml of caller t is the store it
\* serialised (t = 0: the document the manager was loaded from)
Preamble == [kind |-> "preamble", by |-> 0]
Yaml(t) == [kind |-> "yaml", by |-> t]
Hole == [kind |-> "hole", by |-> 0]

\* a document a single commit wrote
CompleteDocuments == {<<Preamble, Yaml(t)>> : t \in Threads \cup {0}}

\* write(chunk) at the descriptor's position pos (the chunks before it that
\* a truncation took away read as a hole)
WriteAt(content, pos, chunk) ==
    [i \in 1..(IF pos + 1 > Len(content) THEN pos + 1 ELSE Len(content)) |->
        IF i = pos + 1 THEN chunk
        ELSE IF i <= Len(content) THEN content[i]
        ELSE Hole]

IdleThread == [pc |-> "idle", fd |-> 0, pos |-> 0, exc |-> "none"]

\* the inodes some name or some open descriptor refers to
InUse(ino, thr) ==
    {ino.tmp, ino.conf} \cup {thr[t].fd : t \in DOMAIN thr}

\* open(tmpfile, "w") (line 1180): the file new_config.tmp of the
\* configuration directory is made, or truncated if there is one
open_tmp(ino, thr) ==
    IF ino.tmp # 0
    THEN [fd |-> ino.tmp, inodes |-> [ino EXCEPT !.content[ino.tmp] = <<>>]]
    ELSE LET id == CHOOSE i \in InodeIds \ InUse(ino, thr) : TRUE
         IN  [fd |-> id,
              inodes |-> [ino EXCEPT !.tmp = id, !.content[id] = <<>>]]

\* os.replace(tmpfile, config_file_path) (line 1183): the name models.yaml
\* now refers to the inode of new_config.tmp, and that name is gone
replace_tmp(ino) ==
    IF ino.tmp = 0
    THEN [exc |-> "FileNotFoundError", inodes |-> ino]
    ELSE [exc |-> "none", inodes |-> [ino EXCEPT !.conf = ino.tmp, !.tmp = 0]]

InitCommit ==
    /\ config = (LoadedKeys[1] :> LoadedStanza(LoadedKeys[1]))
    /\ order = <<LoadedKeys[1]>>
    /\ files = {}
    /\ cache_keys = Empty
    /\ converted = [t \in Targets |-> 0]
    /\ version = CONFIG_FILE_VERSION
    /\ config_path = ConfigFile
    /\ persisted = Doc(version, config)
    /\ backup = NoDoc
    /\ dirs = {}
    /\ last = Blank("none", None, "none", "none")
    /\ input = NoInput
    /\ output = NoOutput
    /\ threads = [t \in Threads |-> IdleThread]
    /\ inodes = [content |-> [i \in InodeIds |->
                                 IF i = 1 THEN <<Preamble, Yaml(0)>> ELSE <<>>],
                 tmp |-> 0, conf |-> 1]
    /\ artifacts = NoArtifacts

\* lines 1175-1180: the store is serialised and the temporary file opened
CommitOpen ==
    \E t \in Threads :
        /\ threads[t].pc = "idle"
        /\ LET r == open_tmp(inodes, threads)
           IN  /\ inodes' = r.inodes
               /\ threads' = [threads EXCEPT ![t] =
                      [pc |-> "preamble", fd |-> r.fd, pos |-> 0, exc |-> "none"]]
        /\ UNCHANGED <<config, cache_keys, converted, files, last, persisted,
                       version, order, config_path, backup, dirs, input, output,
                       artifacts>>

\* line 1181
CommitWritePreamble ==
    \E t \in Threads :
        /\ threads[t].pc = "preamble"
        /\ inodes' = [inodes EXCEPT !.content[threads[t].fd] =
                         WriteAt(@, threads[t].pos, Preamble)]
        /\ threads' = [threads EXCEPT ![t].pc = "yaml", ![t].pos = @ + 1]
        /\ UNCHANGED <<config, cache_keys, converted, files, last, persisted,
                       version, order, config_path, backup, dirs, input, output,
                       artifacts>>

\* line 1182, and the end of the with statement
CommitWriteYaml ==
    \E t \in Threads :
        /\ threads[t].pc = "yaml"
        /\ inodes' = [inodes EXCEPT !.content[threads[t].fd] =
                         WriteAt(@, threads[t].pos, Yaml(t))]
        /\ threads' = [threads EXCEPT ![t].pc = "replace", ![t].fd = 0,
                                      ![t].pos = 0]
        /\ UNCHANGED <<config, cache_keys, converted, files, last, persisted,
                       version, order, config_path, backup, dirs, input, output,
                       artifacts>>

\* line 1183, and the return
CommitReplace ==
    \E t \in Threads :
        /\ threads[t].pc = "replace"
        /\ LET r == replace_tmp(inodes)
           IN  /\ inodes' = r.inodes
               /\ threads' = [threads EXCEPT ![t] = IdleThread]
               /\ last' = [Blank("commit", None, "none", "none")
                             EXCEPT !.exc = r.exc,
                                    !.committed = (r.exc = "none")]
        /\ UNCHANGED <<config, cache_keys, converted, files, persisted,
                       version, order, config_path, backup, dirs, input, output,
                       artifacts>>

NextCommit ==
    \/ CommitOpen
    \/ CommitWritePreamble
    \/ CommitWriteYaml
    \/ CommitReplace

SpecCommit == InitCommit /\ [][NextCommit]_vars

---------------------------------------------------------------------------
(* SpecConvert: convert_ckpt_and_cache (lines 956-984) called by two callers
   at a time, each call in two steps: the test of the converted directory,
   and the end of the converter *)

\* a variant of DiffusersPath that keeps the directories and the extension
\* of the weights in the name of the converted directory
DiffusersPath_whole_path(weights) ==
    ConvertedDir \o weights

\* line 964: converted_ckpts_dir / weights.stem
DiffusersPath(weights) == Join(ConvertedDir, Stem(weights))

\* a caller that is in no call, and the record of a call
NoCall ==
    [pc |-> "idle", weights |-> None, target |-> None, ret |-> None,
     exc |-> "none", converter |-> "none"]

\* a variant of convert_begin with a lock on the converted directory: a
\* caller waits while another one is converting to the same directory
convert_begin_locked(thr, t, mconfig, conv) ==
    LET weights == Join(RootDir, mconfig["weights"])
        diffusers_path == DiffusersPath(weights)
        call == [NoCall EXCEPT !.weights = weights, !.target = diffusers_path]
    IN  IF CacheHit(conv, diffusers_path)
        THEN [thr EXCEPT ![t] = [call EXCEPT !.pc = "done",
                                             !.ret = diffusers_path]]
        ELSE IF \E u \in DOMAIN thr : u # t /\ thr[u].pc = "converting"
                                       /\ thr[u].target = diffusers_path
        THEN [thr EXCEPT ![t] = [call EXCEPT !.pc = "waiting"]]
        ELSE [thr EXCEPT ![t] = [call EXCEPT !.pc = "converting"]]

\* lines 962-970 for the caller t: the converted directory is returned if
\* it exists; otherwise the caller goes on to the converter, whatever the
\* other callers are doing
convert_begin(thr, t, mconfig, conv) ==
    LET weights == Join(RootDir, mconfig["weights"])
        diffusers_path == DiffusersPath(weights)
        call == [NoCall EXCEPT !.weights = weights, !.target = diffusers_path]
    IN  IF CacheHit(conv, diffusers_path)
        THEN [thr EXCEPT ![t] = [call EXCEPT !.pc = "done",
                                             !.ret = diffusers_path]]
        ELSE [thr EXCEPT ![t] = [call EXCEPT !.pc = "converting"]]

\* lines 974-984 for the caller t: the converter ends, having written the
\* converted directory from the caller's weights ("ok") or having raised
convert_end(thr, t, conv, art, outcome) ==
    IF outcome = "ok"
    THEN [threads |-> [thr EXCEPT ![t].pc = "done", ![t].ret = thr[t].target,
                                  ![t].converter = "ok"],
          converted |-> [conv EXCEPT ![thr[t].target] = @ + 1],
          artifacts |-> [art EXCEPT ![thr[t].target] = thr[t].weights]]
    ELSE [threads |-> [thr EXCEPT ![t].pc = "done",
                                  ![t].exc = "ConversionError",
                                  ![t].converter = "raise"],
          converted |-> conv, artifacts |-> art]

\* the weights of the stanzas: two files of one stem, one of another
ConvertWeights == {W1, W2, <<"ckpts", Slash, "n", Dot, "ckpt">>}
ConvertStanzas ==
    {MkStanza("ckpt", None, None, None, w, Absent) : w \in ConvertWeights}
ConvertTargets == {DiffusersPath(Join(RootDir, w)) : w \in ConvertWeights}

InitConvert ==
    /\ config = (LoadedKeys[1] :> LoadedStanza(LoadedKeys[1]))
    /\ order = <<LoadedKeys[1]>>
    /\ files = {}
    /\ cache_keys = Empty
    /\ converted = [d \in ConvertTargets |-> 0]
    /\ version = CONFIG_FILE_VERSION
    /\ config_path = ConfigFile
    /\ persisted = Doc(version, config)
    /\ backup = NoDoc
    /\ dirs = {}
    /\ last = Blank("none", None, "none", "none")
    /\ input = NoInput
    /\ output = NoOutput
    /\ threads = [t \in Threads |-> NoCall]
    /\ inodes = NoInodes
    /\ artifacts = [d \in ConvertTargets |-> None]

ConvertBegin ==
    \E t \in Threads, mconfig \in ConvertStanzas :
        /\ threads[t].pc \in {"idle", "done"}
        /\ threads' = convert_begin(threads, t, mconfig, converted)
        /\ UNCHANGED <<config, cache_keys, converted, files, last, persisted,
                       version, order, config_path, backup, dirs, input, output,
                       inodes, artifacts>>

ConvertEnd ==
    \E t \in Threads, o \in Outcomes :
        /\ threads[t].pc = "converting"
        /\ LET r == convert_end(threads, t, converted, artifacts, o)
           IN  /\ threads' = r.threads
               /\ converted' = r.converted
               /\ artifacts' = r.artifacts
        /\ UNCHANGED <<config, cache_keys, files, last, persisted, version,
                       order, config_path, backup, dirs, input, output, inodes>>

NextConvert ==
    \/ ConvertBegin
    \/ ConvertEnd

SpecConvert == InitConvert /\ [][NextConvert]_vars

---------------------------------------------------------------------------
(* import_diffuser_model, heuristic_import *)

\* import_diffuser_model(repo_or_path, model_name, description, vae,
\* commit_to_conf); is_path: repo_or_path is a Path object that exists
\* (heuristic_import passes a string, so that line 685 stores it as repo_id)
import_diffuser_model(ver, cfg, ck, disk, repo_or_path, is_path, model_name, vae, commit_to_conf) ==
    LET name == IF model_name # None THEN model_name ELSE Stem(repo_or_path)
        new_config ==
            ("description" :> <<"Imported diffusers model ">> \o name)
            @@ ("vae" :> vae) @@ ("format" :> "diffusers")
            @@ (IF is_path THEN "path" :> repo_or_path
                ELSE "repo_id" :> repo_or_path)
        add == add_model(cfg, ck, name, "diffusers", new_config, TRUE)
    IN  IF add.exc # "none"
        THEN [exc |-> add.exc, ret |-> None, config |-> cfg, cache_keys |-> ck,
              persisted |-> disk]
        ELSE [exc |-> "none", ret |-> create_key(name, "diffusers"),
              config |-> add.config, cache_keys |-> add.cache_keys,
              persisted |-> IF commit_to_conf THEN commit(ver, add.config)
                            ELSE disk]

\* thing.startswith(("http:", "https:", "ftp:"))
IsUrl(thing) ==
    Len(thing) > 0 /\ thing[1] \in {"http:", "https:", "ftp:"}

\* thing.endswith((".ckpt", ".safetensors"))
EndsWithCkpt(thing) ==
    /\ Len(thing) >= 2
    /\ thing[Len(thing) - 1] = Dot
    /\ thing[Len(thing)] \in {"ckpt", "safetensors"}

\* the tokens that hold a character outside [\w.+-]
NonWordTokens == {Slash, "http:", "https:", "ftp:", "no such thing"}

\* a variant of IsRepoId that takes any string for a repository
IsRepoId_any(thing) == TRUE

\* re.match(r"^[\w.+-]+/[\w.+-]+$", thing): two non-empty runs of word
\* characters with one "/" between them
IsRepoId(thing) ==
    LET i == FirstIndex(thing, Slash, 1)
    IN  /\ i > 1
        /\ i < Len(thing)
        /\ \A j \in 1..Len(thing) : j # i => thing[j] \notin NonWordTokens

\* the branch of lines 826-877 that a reference takes on the disk (fs, ds)
ThingKind(thing, fs, ds) ==
    IF IsUrl(thing) THEN "url"
    ELSE IF thing \in fs /\ EndsWithCkpt(thing) THEN "file"
    ELSE IF thing \in ds /\ PathJoin(thing, <<"model_index", Dot, "json">>) \in fs
    THEN "diffusers_dir"
    ELSE IF thing \in ds THEN "dir"
    ELSE IF IsRepoId(thing) THEN "repo_id"
    ELSE "unknown"

\* what a call hands on: the store, the cache keys, the converted
\* directories and the configuration file, with the value returned, the
\* exception that left the call and what was logged
ImportState(cfg, ck, conv, disk, ret, exc, logged) ==
    [config |-> cfg, cache_keys |-> ck, converted |-> conv, persisted |-> disk,
     ret |-> ret, exc |-> exc, logged |-> logged]

\* lines 881-954: the import of the checkpoint file model_path.  outcome is
\* "no_config" when neither a like-named .yaml file, nor the probe, nor the
\* callback yields a configuration file, and else how the converter ends.
\* The checkpoint file is taken to be readable (lines 890-894).
import_checkpoint(ver, cfg, ck, conv, disk, fs, model_path, model_name, commit_to_conf, outcome) ==
    IF model_path = None
    THEN ImportState(cfg, ck, conv, disk, None, "none", "none")
    ELSE IF Stem(model_path) \in DOMAIN cfg
    THEN ImportState(cfg, ck, conv, disk, Stem(model_path), "none", "debug")
    ELSE IF outcome = "no_config"
    THEN ImportState(cfg, ck, conv, disk, None, "none", "warning")
    ELSE
    LET vae_path == SiblingVae(model_path, fs, VaeSuffixes, None)
        vae == IF vae_path # None THEN VaeDict(None, None, None)
               ELSE VaeDict(None, DefaultVae, None)
        r == convert_and_import(ver, cfg, ck, conv, disk, model_path,
                 Join(ConvertedDir, Stem(model_path)), model_name, vae,
                 vae_path, commit_to_conf, outcome)
    IN  ImportState(r.config, r.cache_keys, r.converted, r.persisted,
                    r.last.ret_name, "none", r.last.logged)

\* lines 832-838 and 881-954: heuristic_import of a checkpoint file on disk
import_file(ver, cfg, ck, conv, disk, fs, thing, model_name, commit_to_conf, outcome) ==
    IF Stem(thing) \in {<<"model">>, <<"diffusion_pytorch_model">>}
    THEN ImportState(cfg, ck, conv, disk, None, "none", "debug")
    ELSE import_checkpoint(ver, cfg, ck, conv, disk, fs, Join(RootDir, thing),
                           model_name, commit_to_conf, outcome)

\* how the import of the checkpoint file f ends (a file that no import
\* gets to convert has no entry)
OutcomeOf(outcomes, f) ==
    IF f \in DOMAIN outcomes THEN outcomes[f] ELSE "ok"

\* lines 858-867: the loop over the checkpoint files found, from the i-th
\* on.  st is the state so far; its ret is the value the last call returned
\* (the assignment expression of line 861 binds model_name in every turn),
\* and attempts the files tried with what each call returned.
RECURSIVE import_each(_, _, _, _, _, _, _, _)
import_each(ver, st, fs, found, i, commit_to_conf, outcomes, attempts) ==
    IF i > Len(found) THEN st @@ [attempts |-> attempts]
    ELSE LET r == import_file(ver, st.config, st.cache_keys, st.converted,
                              st.persisted, fs, found[i], None, commit_to_conf,
                              OutcomeOf(outcomes, found[i]))
         IN  import_each(ver, r, fs, found, i + 1, commit_to_conf, outcomes,
                         Append(attempts, [path |-> found[i],
                                           outcome |-> OutcomeOf(outcomes, found[i]),
                                           ret |-> r.ret]))

\* list(Path(thing).rglob("*.ckpt")) + list(Path(thing).rglob("*.safetensors")),
\* each in the order `listing` of the directory walk
Rglob(thing, fs, listing) ==
    SelectSeq(listing, LAMBDA f : f \in fs /\ Below(f, thing)
                                   /\ f[Len(f)] = "ckpt")
    \o SelectSeq(listing, LAMBDA f : f \in fs /\ Below(f, thing)
                                      /\ f[Len(f)] = "safetensors")

\* heuristic_import(path_url_or_repo, model_name, commit_to_conf) on the
\* disk (fs, ds).  downloaded is the file _resolve_path downloaded a URL to
\* (None if the download failed); outcomes tells for each checkpoint file
\* how its import ends (see import_checkpoint).
heuristic_import(ver, cfg, ck, conv, disk, fs, ds, thing, model_name, commit_to_conf, downloaded, outcomes, listing) ==
    LET kind == ThingKind(thing, fs, ds)
        no_attempts == [attempts |-> <<>>]
    IN  IF kind = "url"
        THEN import_checkpoint(ver, cfg, ck, conv, disk, fs, downloaded,
                 model_name, commit_to_conf,
                 OutcomeOf(outcomes, downloaded))
             @@ no_attempts
        ELSE IF kind = "file"
        THEN import_file(ver, cfg, ck, conv, disk, fs, thing, model_name,
                         commit_to_conf, OutcomeOf(outcomes, thing))
             @@ no_attempts
        ELSE IF kind = "diffusers_dir"
        THEN LET r == import_diffuser_model(ver, cfg, ck, disk, thing, FALSE,
                          model_name, VaeDict(None, DefaultVae, None),
                          commit_to_conf)
             IN  ImportState(r.config, r.cache_keys, conv, r.persisted, r.ret,
                             r.exc, "debug") @@ no_attempts
        ELSE IF kind = "dir"
        THEN import_each(ver,
                 ImportState(cfg, ck, conv, disk, model_name, "none", "debug"),
                 fs, Rglob(thing, fs, listing), 1, commit_to_conf, outcomes,
                 <<>>)
        ELSE IF kind = "repo_id"
        THEN LET r == import_diffuser_model(ver, cfg, ck, disk, thing, FALSE,
                          None, Absent, commit_to_conf)
                 \* line 874 is not reached: import_diffuser_model raises
             IN  ImportState(r.config, r.cache_keys, conv, r.persisted, r.ret,
                             r.exc, "debug") @@ no_attempts
        ELSE ImportState(cfg, ck, conv, disk, None, "none", "unknown thing")
             @@ no_attempts

---------------------------------------------------------------------------
(* SpecHeuristic: heuristic_import of files, directories, URLs, repository
   names and other strings *)

InDir == RootDir \o <<Slash, "in">>
CkptM == InDir \o <<Slash, "m", Dot, "ckpt">>
CkptN == InDir \o <<Slash, "n", Dot, "safetensors">>
PartFile == InDir \o <<Slash, "sd", Slash, "model", Dot, "safetensors">>
MarkerFile == InDir \o <<Slash, "sd", Slash, "model_index", Dot, "json">>
ImportFiles == {CkptM, CkptN, PartFile, MarkerFile}

\* the file a URL is downloaded to
Url == <<"https:", Slash, Slash, "host", Slash, "u", Dot, "ckpt">>
Downloaded ==
    RootDir \o <<Slash, "models", Slash, "ldm", Slash, "stable-diffusion-v1",
                 Slash, "u", Dot, "ckpt">>

\* the checkpoint files an import may try, and how the import of each of
\* the files fs ends
Candidates == {CkptM, CkptN, Downloaded}
ImportOutcomes(fs) == [fs -> {"ok", "raise", "no_config"}]

\* the references: a URL, a checkpoint file, a part of a diffusers model,
\* a diffusers directory, a plain directory, a repository name, a file that
\* is not there, a string that is none of these
Things ==
    {Url, CkptM, PartFile, InDir \o <<Slash, "sd">>, InDir, R1,
     InDir \o <<Slash, "gone", Dot, "ckpt">>, <<"no such thing">>}

\* the orders in which the walk of a directory lists its files
RglobListings == {<<CkptM, CkptN, PartFile>>, <<CkptM, PartFile, CkptN>>}

\* the calls: a reference, with or without a name, and the inputs that the
\* branch the reference takes depends on
ImportCall(thing, model_name, downloaded, outcomes, listing) ==
    [thing |-> thing, model_name |-> model_name, downloaded |-> downloaded,
     outcomes |-> outcomes, listing |-> listing]
ImportCalls ==
    {ImportCall(Url, n, d, o, <<>>) :
        n \in {None, <<"a">>}, d \in {None, Downloaded},
        o \in ImportOutcomes({Downloaded})}
    \cup {ImportCall(CkptM, n, None, o, <<>>) :
        n \in {None, <<"a">>}, o \in ImportOutcomes({CkptM})}
    \cup {ImportCall(InDir, n, None, o, l) :
        n \in {None, <<"a">>}, o \in ImportOutcomes({CkptM, CkptN}),
        l \in RglobListings}
    \cup {ImportCall(t, n, None, Empty, <<>>) :
        t \in Things \ {Url, CkptM, InDir}, n \in {None, <<"a">>}}

InitHeuristic ==
    /\ files \in {ImportFiles, ImportFiles \ {CkptN}, {MarkerFile, PartFile}, {}}
    /\ dirs = DiskDirs(files, {})
    /\ \/ config = Empty /\ order = <<>>
       \/ /\ config = (create_key(<<"m">>, "diffusers")
                         :> MkStanza("folder", P1, None, None, None, Absent))
          /\ order = <<create_key(<<"m">>, "diffusers")>>
    /\ cache_keys = Empty
    /\ converted = [t \in {Join(ConvertedDir, Stem(c)) : c \in Candidates} |-> 0]
    /\ version = CONFIG_FILE_VERSION
    /\ config_path = ConfigFile
    /\ persisted = Doc(version, config)
    /\ backup = NoDoc
    /\ last = Blank("none", None, "none", "none")
    /\ input = NoInput
    /\ output = NoOutput
    /\ threads = NoThreads
    /\ inodes = NoInodes
    /\ artifacts = NoArtifacts

\* the keys an import added to the store, as the end of its order
NewKeys(added) ==
    CHOOSE sq \in [1..Cardinality(added) -> added] :
        \A i, j \in 1..Cardinality(added) : i # j => sq[i] # sq[j]

HeuristicImport ==
    \E c \in ImportCalls :
        LET thing == c.thing
            model_name == c.model_name
            r == heuristic_import(version, config, cache_keys, converted,
                     persisted, files, dirs, thing, model_name, TRUE,
                     c.downloaded, c.outcomes, c.listing)
        IN  /\ config' = r.config
            /\ cache_keys' = r.cache_keys
            /\ converted' = r.converted
            /\ persisted' = r.persisted
            /\ order' = SelectSeq(order, LAMBDA k : k \in DOMAIN r.config)
                        \o NewKeys(DOMAIN r.config \ DOMAIN config)
            /\ last' = [Blank("heuristic_import", model_name, "none", "none")
                          EXCEPT !.thing = thing, !.ret_name = r.ret,
                                 !.exc = r.exc, !.logged = r.logged,
                                 !.attempts = r.attempts,
                                 !.converter = OutcomeOf(c.outcomes, thing)]
            /\ UNCHANGED <<files, version, config_path, backup, dirs, input,
                           output, threads, inodes, artifacts>>

NextHeuristic ==
    HeuristicImport

SpecHeuristic == InitHeuristic /\ [][NextHeuristic]_vars

---------------------------------------------------------------------------
(* probe_model_type.  A checkpoint is a function from its keys to their
   values; a tensor is known by its shape, a sequence of dimensions. *)

AttnKey == "model.diffusion_model.input_blocks.2.1.transformer_blocks.0.attn2.to_k.weight"
ConvKey == "model.diffusion_model.input_blocks.0.0.weight"

SDLegacyType == {"V1", "V1_INPAINT", "V2", "V2_e", "V2_v", "UNKNOWN"}

\* dict.get(key): None when the key is absent
DictGet(d, k) == IF k \in DOMAIN d THEN d[k] ELSE None

\* checkpoint.get("state_dict") or checkpoint: an empty state_dict is falsy
StateDict(checkpoint) ==
    IF DOMAIN DictGet(checkpoint, "state_dict") # {}
    THEN checkpoint["state_dict"] ELSE checkpoint

\* shape[i] of Python, i counted from 0 and from the end when negative
ShapeInRange(shape, i) ==
    IF i < 0 THEN -i <= Len(shape) ELSE i < Len(shape)
ShapeAt(shape, i) ==
    IF i < 0 THEN shape[Len(shape) + i + 1] ELSE shape[i + 1]

ProbeResult(type, exc) == [type |-> type, exc |-> exc]

\* lines 771-779: the first convolution's input channels
probe_in_channels(state_dict) ==
    IF ConvKey \notin DOMAIN state_dict THEN ProbeResult("UNKNOWN", "none")
    ELSE IF ~ ShapeInRange(state_dict[ConvKey], 1)
    THEN ProbeResult("none", "IndexError")
    ELSE LET in_channels == ShapeAt(state_dict[ConvKey], 1)
         IN  IF in_channels = 9 THEN ProbeResult("V1_INPAINT", "none")
             ELSE IF in_channels = 4 THEN ProbeResult("V1", "none")
             ELSE ProbeResult("UNKNOWN", "none")

\* lines 764-769: the three kinds of V2, told apart by global_step
\* (checkpoint.get("global_step") is None, equal to no number, when the key
\* is absent)
StepIs(checkpoint, n) ==
    "global_step" \in DOMAIN checkpoint /\ checkpoint["global_step"] = n
probe_v2(checkpoint) ==
    IF StepIs(checkpoint, 220000) THEN ProbeResult("V2_e", "none")
    ELSE IF StepIs(checkpoint, 110000) THEN ProbeResult("V2_v", "none")
    ELSE ProbeResult("V2", "none")

probe_model_type_channels_first(checkpoint) ==
    LET state_dict == StateDict(checkpoint)
    IN  IF ConvKey \in DOMAIN state_dict
        THEN probe_in_channels(state_dict)
        ELSE IF AttnKey \in DOMAIN state_dict
                /\ ShapeInRange(state_dict[AttnKey], -1)
                /\ ShapeAt(state_dict[AttnKey], -1) = 1024
        THEN probe_v2(checkpoint)
        ELSE ProbeResult("UNKNOWN", "none")
probe_model_type(checkpoint) ==
    LET state_dict == StateDict(checkpoint)
    IN  IF AttnKey \in DOMAIN state_dict
           /\ ~ ShapeInRange(state_dict[AttnKey], -1)
        THEN ProbeResult("none", "IndexError")
        ELSE IF AttnKey \in DOMAIN state_dict
                /\ ShapeAt(state_dict[AttnKey], -1) = 1024
        THEN probe_v2(checkpoint)
        ELSE probe_in_channels(state_dict)

---------------------------------------------------------------------------
(* SpecProbe: probe_model_type on checkpoints with and without a state_dict
   of their own, with and without each of the two tensors *)

\* the weight of a linear layer has two dimensions, that of a convolution
\* four (out_channels, in_channels, height, width)
AttnShapes == {<<320, 768>>, <<320, 1024>>, <<1024, 768>>}
ConvShapes == {<<320, 4, 3, 3>>, <<320, 9, 3, 3>>, <<320, 8, 3, 3>>}
GlobalSteps == {0, 110000, 220000}

TensorDicts ==
    { a @@ c : a \in {Empty} \cup {AttnKey :> s : s \in AttnShapes},
               c \in {Empty} \cup {ConvKey :> s : s \in ConvShapes} }
StepDicts == {Empty} \cup {"global_step" :> g : g \in GlobalSteps}

\* a pickled training checkpoint keeps its tensors under state_dict; a
\* safetensors file, and a bare pickle, is the dictionary of tensors itself
Checkpoints ==
    { g @@ ("state_dict" :> t) : g \in StepDicts, t \in TensorDicts }
    \cup { g @@ t : g \in StepDicts, t \in TensorDicts }

InitProbe ==
    /\ input = Empty
    /\ output = NoOutput
    /\ last = Blank("none", None, "none", "none")
    /\ threads = NoThreads
    /\ inodes = NoInodes
    /\ artifacts = NoArtifacts
    /\ config = Empty
    /\ order = <<>>
    /\ files = {}
    /\ dirs = {}
    /\ cache_keys = Empty
    /\ converted = [t \in Targets |-> 0]
    /\ version = CONFIG_FILE_VERSION
    /\ config_path = ConfigFile
    /\ persisted = Doc(CONFIG_FILE_VERSION, Empty)
    /\ backup = NoDoc

\* model_type = self.probe_model_type(checkpoint)
ProbeModelType ==
    /\ \E checkpoint \in Checkpoints :
          LET r == probe_model_type(checkpoint)
          IN  /\ input' = checkpoint
              /\ output' = [NoOutput EXCEPT !.stage = "probe_model_type",
                                            !.type = r.type, !.exc = r.exc]
    /\ UNCHANGED <<config, cache_keys, converted, files, last, persisted, version,
                   order, config_path, backup, dirs, threads, inodes, artifacts>>

NextProbe ==
    \/ ProbeModelType

SpecProbe == InitProbe /\ [][NextProbe]_vars

---------------------------------------------------------------------------
(* import_lora, import_embedding *)

\* import_lora(path, model_name, description)
import_lora(cfg, ck, path, model_name) ==
    LET name == IF model_name # None THEN model_name ELSE Stem(path)
    IN  add_model(cfg, ck, name, "lora",
                  ("format" :> "lora") @@ ("weights" :> path)
                  @@ ("description" :> <<"LoRA model ">> \o name),
                  TRUE)

\* import_embedding(path, model_name, description): line 727 calls
\* path.is_directory(), which pathlib.Path does not have
import_embedding(cfg, ck, path, model_name) ==
    [exc |-> "AttributeError", config |-> cfg, cache_keys |-> ck]

---------------------------------------------------------------------------
(* SpecStore: the construction of a manager on a models.yaml of an old or of
   the current version, then add_model, the imports and
   scan_models_directory in any order, on a models directory that holds a
   lora and a support tool *)

ToolFile == ModelsPath \o <<Slash, "support", Slash, "codeformer", Slash, "codeformer", Dot, "pth">>
TreeFiles == {ScanLoraFile, ToolFile, CkptM}
TreeNames ==
    ScanNames \o << <<"support">>, <<"codeformer">>, <<"codeformer", Dot, "pth">> >>

\* the stores of a models.yaml of version 2: bare and prefixed keys, each
\* stanza with the one location of its format
TreeOldStores ==
    {Empty} \cup {k :> st : k \in {<<"a">>, <<"lora", Slash, "b">>},
                            st \in PairStanzas}
\* the stores of a models.yaml of the current version
TreeStores ==
    {[key \in keys |-> LoadedStanza(key)] :
        keys \in {{LoadedKeys[1]}, {LoadedKeys[1], LoadedKeys[2]}}}

\* the attributes add_model is given: those of AddRequests, a diffusers
\* model with a repo_id and a path, a lora without weights
TreeAddRequests ==
    AddRequests \cup
    {[name |-> <<"new">>, type |-> "diffusers",
      attributes |-> HubAttributes @@ ("path" :> P1), clobber |-> TRUE],
     [name |-> <<"new">>, type |-> "lora",
      attributes |-> ("format" :> "lora") @@ ("description" :> Desc1),
      clobber |-> TRUE]}

\* __init__, lines 255-262: the configuration is loaded
InitStore ==
    /\ files \in SUBSET TreeFiles
    /\ dirs = DiskDirs(files, {})
    /\ \/ version = <<2, 0, 0>> /\ config \in TreeOldStores
       \/ version = CONFIG_FILE_VERSION /\ config \in TreeStores
    /\ order = NewKeys(DOMAIN config)
    /\ config_path = ConfigFile
    /\ persisted = Doc(version, config)
    /\ backup = NoDoc
    /\ cache_keys = Empty
    /\ converted = [t \in {Join(ConvertedDir, Stem(CkptM))} |-> 0]
    /\ last = Blank("none", None, "none", "none")
    /\ input = NoInput
    /\ output = [NoOutput EXCEPT !.stage = "loaded"]
    /\ threads = NoThreads
    /\ inodes = NoInodes
    /\ artifacts = NoArtifacts

\* __init__, lines 264-278: _update_config_file_version(), then
\* scan_models_directory(include_diffusers=False)
StoreConstruct ==
    /\ output.stage = "loaded"
    /\ LET u == update_config_file_version(version, config, order, config_path,
                                           persisted, backup, "ok")
           r == scan_models_directory(u.config, u.order, files, dirs, FALSE,
                                      TreeNames)
       IN  /\ version' = u.version
           /\ persisted' = u.persisted
           /\ backup' = u.backup
           /\ config' = r.config
           /\ order' = r.order
           /\ last' = [Blank("__init__", None, "none", "none")
                         EXCEPT !.logged = u.logged]
    /\ output' = [output EXCEPT !.stage = "ready"]
    /\ UNCHANGED <<cache_keys, converted, files, config_path, dirs, input,
                   threads, inodes, artifacts>>

StoreAddModel ==
    /\ output.stage = "ready"
    /\ \E q \in TreeAddRequests :
        LET r == add_model(config, cache_keys, q.name, q.type, q.attributes,
                           q.clobber)
        IN  /\ config' = r.config
            /\ cache_keys' = r.cache_keys
            /\ order' = SelectSeq(order, LAMBDA k : k \in DOMAIN r.config)
                        \o NewKeys(DOMAIN r.config \ DOMAIN config)
            /\ last' = [Blank("add_model", q.name, q.type, "none")
                          EXCEPT !.exc = r.exc, !.attributes = q.attributes,
                                 !.clobber = q.clobber]
    /\ UNCHANGED <<converted, files, persisted, version, config_path, backup,
                   dirs, input, output, threads, inodes, artifacts>>

StoreImportDiffuserModel ==
    /\ output.stage = "ready"
    /\ \E repo_or_path \in {R1, Join(RootDir, P1)}, commit_to_conf \in BOOLEAN :
        LET r == import_diffuser_model(version, config, cache_keys, persisted,
                     repo_or_path, repo_or_path # R1, None, None,
                     commit_to_conf)
        IN  /\ config' = r.config
            /\ cache_keys' = r.cache_keys
            /\ persisted' = r.persisted
            /\ order' = SelectSeq(order, LAMBDA k : k \in DOMAIN r.config)
                        \o NewKeys(DOMAIN r.config \ DOMAIN config)
            /\ last' = [Blank("import_diffuser_model", None, "diffusers", "none")
                          EXCEPT !.exc = r.exc, !.thing = repo_or_path,
                                 !.ret_name = r.ret]
    /\ UNCHANGED <<converted, files, version, config_path, backup, dirs, input,
                   output, threads, inodes, artifacts>>

StoreImportLora ==
    /\ output.stage = "ready"
    /\ \E path \in {ScanLoraFile, OutsideFile} :
        LET r == import_lora(config, cache_keys, path, None)
        IN  /\ config' = r.config
            /\ cache_keys' = r.cache_keys
            /\ order' = SelectSeq(order, LAMBDA k : k \in DOMAIN r.config)
                        \o NewKeys(DOMAIN r.config \ DOMAIN config)
            /\ last' = [Blank("import_lora", None, "lora", "none")
                          EXCEPT !.exc = r.exc, !.thing = path]
    /\ UNCHANGED <<converted, files, persisted, version, config_path, backup,
                   dirs, input, output, threads, inodes, artifacts>>

StoreImportEmbedding ==
    /\ output.stage = "ready"
    /\ \E path \in {ScanLoraFile, OutsideFile} :
        LET r == import_embedding(config, cache_keys, path, None)
        IN  /\ config' = r.config
            /\ cache_keys' = r.cache_keys
            /\ order' = SelectSeq(order, LAMBDA k : k \in DOMAIN r.config)
                        \o NewKeys(DOMAIN r.config \ DOMAIN config)
            /\ last' = [Blank("import_embedding", None, "textual_inversion", "none")
                          EXCEPT !.exc = r.exc, !.thing = path]
    /\ UNCHANGED <<converted, files, persisted, version, config_path, backup,
                   dirs, input, output, threads, inodes, artifacts>>

StoreHeuristicImport ==
    /\ output.stage = "ready"
    /\ \E thing \in {CkptM, R1, <<"no such thing">>},
          outcome \in {"ok", "raise"} :
        LET r == heuristic_import(version, config, cache_keys, converted,
                     persisted, files, dirs, thing, None, TRUE, None,
                     (CkptM :> outcome), <<>>)
        IN  /\ config' = r.config
            /\ cache_keys' = r.cache_keys
            /\ converted' = r.converted
            /\ persisted' = r.persisted
            /\ order' = SelectSeq(order, LAMBDA k : k \in DOMAIN r.config)
                        \o NewKeys(DOMAIN r.config \ DOMAIN config)
            /\ last' = [Blank("heuristic_import", None, "none", "none")
                          EXCEPT !.thing = thing, !.ret_name = r.ret,
                                 !.exc = r.exc, !.logged = r.logged,
                                 !.attempts = r.attempts]
    /\ UNCHANGED <<files, version, config_path, backup, dirs, input, output,
                   threads, inodes, artifacts>>

StoreScan ==
    /\ output.stage = "ready"
    /\ \E include_diffusers \in BOOLEAN :
        LET r == scan_models_directory(config, order, files, dirs,
                                       include_diffusers, TreeNames)
        IN  /\ config' = r.config
            /\ order' = r.order
            /\ last' = [Blank("scan_models_directory", None, "none", "none")
                          EXCEPT !.include_diffusers = include_diffusers,
                                 !.logged = IF r.deleted = {} THEN "none"
                                            ELSE "warning"]
    /\ UNCHANGED <<cache_keys, converted, files, persisted, version,
                   config_path, backup, dirs, input, output, threads, inodes,
                   artifacts>>

\* a file is removed from the disk, or put on it
StoreDisk ==
    /\ output.stage = "ready"
    /\ \E f \in TreeFiles :
        /\ files' = IF f \in files THEN files \ {f} ELSE files \cup {f}
        /\ dirs' = DiskDirs(files', {})
        /\ last' = Blank("none", None, "none", "none")
    /\ UNCHANGED <<config, cache_keys, converted, persisted, version, order,
                   config_path, backup, input, output, threads, inodes,
                   artifacts>>

\* the keys parse_key is given: of a lora, of a support tool, of an unknown
\* type with a "/" in the name, with an empty prefix, without a "/"
ParsedKeys ==
    {create_key(<<"foo">>, "lora"), <<"codeformer", Slash, "codeformer">>,
     <<"bogus", Slash, "a", Slash, "b">>, <<Slash, "a">>, <<"a">>}

StoreParseKey ==
    /\ output.stage = "ready"
    /\ \E model_key \in ParsedKeys :
        LET r == parse_key(model_key)
        IN  last' = [Blank("parse_key", None, "none", "none")
                       EXCEPT !.thing = model_key, !.exc = r.exc,
                              !.ret_name = r.name, !.ret_type = r.type]
    /\ UNCHANGED <<config, cache_keys, converted, files, persisted, version,
                   order, config_path, backup, dirs, input, output, threads,
                   inodes, artifacts>>

NextStore ==
    \/ StoreConstruct
    \/ StoreParseKey
    \/ StoreAddModel
    \/ StoreImportDiffuserModel
    \/ StoreImportLora
    \/ StoreImportEmbedding
    \/ StoreHeuristicImport
    \/ StoreScan
    \/ StoreDisk

SpecStore == InitStore /\ [][NextStore]_vars

---------------------------------------------------------------------------
(* scripts/scan_models_directory.py: main() on the models directory.  The
   names base and model_type are local to main: they are bound in the loop
   over the directories of a root (line 26) and read in the loop over its
   files (lines 37-43). *)

\* the locals of main before the walk
ScriptLocals ==
    [conf |-> Empty, bound |-> FALSE, base |-> None, model_type |-> None,
     exc |-> "none"]

\* lines 22-34 for one root of the walk: the loop over its directories
script_dirs(st, root, ds, listing) ==
    LET subpaths == Subpaths(root)
        ds_here == ChildDirs(root, ds, listing)
    IN  IF ds_here = <<>> \/ Len(subpaths) < 2 THEN st
        ELSE [st EXCEPT
                !.bound = TRUE,
                !.base = subpaths[1],
                !.model_type = subpaths[2],
                !.conf = scan_assign(
                             [i \in 1..Len(ds_here) |->
                                 scan_dir_entry(root, subpaths, ds_here[i])],
                             1, st.conf, <<>>).config]

\* lines 36-44 for one root of the walk: the loop over its files, with the
\* base and the model_type the locals hold
script_files(st, root, fs, listing) ==
    LET fs_here == ChildFiles(root, fs, listing)
    IN  IF fs_here = <<>> THEN st
        ELSE IF ~ st.bound THEN [st EXCEPT !.exc = "UnboundLocalError"]
        ELSE [st EXCEPT
                !.conf = scan_assign(
                             [i \in 1..Len(fs_here) |->
                                 scan_file_entry(root, <<st.base, st.model_type>>,
                                                 fs_here[i])],
                             1, st.conf, <<>>).config]

\* lines 21-44: the walk, which an exception ends
RECURSIVE script_walk(_, _, _, _, _)
script_walk(roots, st, fs, ds, listing) ==
    IF roots = <<>> \/ st.exc # "none" THEN st
    ELSE script_walk(Tail(roots),
             script_files(script_dirs(st, Head(roots), ds, listing),
                          Head(roots), fs, listing),
             fs, ds, listing)

\* main() with models_directory = ModelsPath: the stanzas written to the
\* standard output (the "_version" entry apart), or the exception
script_main(fs, ds, listing) ==
    LET st == script_walk(Walk(ModelsPath, ds, listing), ScriptLocals, fs, ds,
                          listing)
    IN  [exc |-> st.exc, conf |-> IF st.exc = "none" THEN st.conf ELSE Empty]

---------------------------------------------------------------------------
(* SpecScript: the scan script on a models directory whose entries come and
   go *)

InitScript ==
    /\ \E fs \in SUBSET ScanFiles, ds \in SUBSET ScanDirs :
          /\ files = fs
          /\ dirs = DiskDirs(fs, ds)
    /\ config = Empty
    /\ order = <<>>
    /\ persisted = NoDoc
    /\ version = CONFIG_FILE_VERSION
    /\ config_path = None
    /\ backup = NoDoc
    /\ cache_keys = Empty
    /\ converted = [t \in Targets |-> 0]
    /\ last = Blank("none", None, "none", "none")
    /\ input = NoInput
    /\ output = NoOutput
    /\ threads = NoThreads
    /\ inodes = NoInodes
    /\ artifacts = NoArtifacts

\* python scan_models_directory.py <root>/models
ScriptMain ==
    /\ \E listing \in Listings :
          LET r == script_main(files, dirs, listing)
          IN  /\ input' = listing
              /\ output' = [stage |-> "scan_script", exc |-> r.exc,
                            conf |-> r.conf]
    /\ UNCHANGED <<config, cache_keys, converted, files, persisted, version,
                   order, config_path, backup, dirs, last, threads, inodes,
                   artifacts>>

NextScript ==
    \/ ScriptMain
    \/ RemoveEntry
    \/ AddEntry

SpecScript == InitScript /\ [][NextScript]_vars

---------------------------------------------------------------------------
(* The claims *)

\* the key and the stanza the last call was about
LastKey == create_key(last.name, last.type)
LastKnown == LastKey \in DOMAIN config
LastStanza == config[LastKey]

\* C1: for every type of the enumeration and every name, also one holding
\* "/", parse_key(create_key(name, type)) succeeds and returns (name, type).
C1_RoundTrip ==
    output.stage = "parsed" =>
        /\ output.exc = "none"
        /\ output.name = input.name
        /\ output.type = input.type

\* a name with a "/" in it has made the round trip
C1_Witness ==
    /\ output.stage = "parsed"
    /\ FirstIndex(input.name, Slash, 1) > 0
    /\ output.name = input.name

\* C2: a get_model whose key type/name is not in the store raises
\* InvalidModelError, whatever other type the name is stored under; it calls
\* neither the ModelCache nor the converter and leaves the store, the cache
\* keys and the converted directories as they were.
C2_UnknownKeyRaises ==
    [][(last'.op = "get_model"
        /\ create_key(last'.name, last'.type) \notin DOMAIN config)
       => /\ last'.exc = "InvalidModelError"
          /\ ~ last'.hash_call.made
          /\ ~ last'.cache_call.made
          /\ last'.converter = "none"
          /\ ~ last'.vae_resolved
          /\ config' = config
          /\ cache_keys' = cache_keys
          /\ converted' = converted]_vars

\* a get_model was refused although its name is stored under another type
C2_Witness ==
    /\ last.op = "get_model"
    /\ last.exc = "InvalidModelError"
    /\ \E k \in DOMAIN config :
          parse_key(k).name = last.name /\ parse_key(k).type # last.type

\* the tiers path, repo_id, weights of the claim C3
C3_PathRepoWeights(stanza) ==
    IF "path" \in DOMAIN stanza THEN RootDir \o <<Slash>> \o stanza["path"]
    ELSE IF "repo_id" \in DOMAIN stanza THEN stanza["repo_id"]
    ELSE IF "weights" \in DOMAIN stanza
    THEN RootDir \o <<Slash>> \o stanza["weights"]
    ELSE None

\* the tiers path, repo_id
C3_PathRepo(stanza) ==
    IF "path" \in DOMAIN stanza THEN RootDir \o <<Slash>> \o stanza["path"]
    ELSE IF "repo_id" \in DOMAIN stanza THEN stanza["repo_id"]
    ELSE None

\* C3 as claimed: every get_model that is not delegated to the converter
\* cache, of any type, resolves to the path, else the repo_id, else the
\* weights, else to no location.
C3_Original ==
    (last.op = "get_model" /\ LastKnown /\ ~ last.delegated) =>
        last.resolved = C3_PathRepoWeights(LastStanza)

\* C3 as amended: that holds for every type but diffusers; a diffusers
\* request that is not delegated resolves to the path, else the repo_id, else
\* to no location, and never to the weights.
C3_LocationTiers ==
    (last.op = "get_model" /\ LastKnown /\ ~ last.delegated) =>
        last.resolved = IF last.type = "diffusers"
                        THEN C3_PathRepo(LastStanza)
                        ELSE C3_PathRepoWeights(LastStanza)

\* a model of another type that has only weights was fetched from them
C3_Witness ==
    /\ last.op = "get_model"
    /\ last.exc = "none"
    /\ last.type # "diffusers"
    /\ DOMAIN LastStanza \cap {"path", "repo_id", "weights"} = {"weights"}
    /\ last.resolved = RootDir \o <<Slash>> \o LastStanza["weights"]
    /\ last.ret_location = last.resolved

\* the directory the checkpoint of a stanza is converted to
ConvertedPath(stanza) ==
    ConvertedDir \o <<Slash>> \o Stem(stanza["weights"])

\* get_model is to delegate the last request to convert_ckpt_and_cache
C4_ToDelegate ==
    last.type = "diffusers" /\ LastStanza["format"] \in {"ckpt", "safetensors"}

\* the last request asks for a submodel the stanza overrides
LastRedirected ==
    /\ last.submodel # "none"
    /\ last.submodel \in DOMAIN LastStanza
    /\ Truthy(LastStanza[last.submodel])

\* C4 as claimed: get_model delegates to convert_ckpt_and_cache exactly when
\* the type is diffusers and the format ckpt or safetensors, the location
\* returned is then the converted directory, and no other type converts.
C4_Original ==
    (last.op = "get_model" /\ LastKnown) =>
        /\ last.delegated <=> C4_ToDelegate
        /\ (last.delegated /\ last.exc = "none")
              => last.ret_location = ConvertedPath(LastStanza)
        /\ last.type # "diffusers" => last.converter = "none"

\* C4 as amended: the location resolved (and hashed) is then the converted
\* directory, and it is the location returned unless a submodel override
\* redirects the request.
C4_Delegation ==
    (last.op = "get_model" /\ LastKnown) =>
        /\ last.delegated <=> C4_ToDelegate
        /\ (last.delegated /\ last.hash_call.made)
              => /\ last.resolved = ConvertedPath(LastStanza)
                 /\ last.hash_call.location = ConvertedPath(LastStanza)
        /\ (last.delegated /\ last.exc = "none" /\ ~ LastRedirected)
              => last.ret_location = ConvertedPath(LastStanza)
        /\ last.type # "diffusers" => last.converter = "none"

\* a safetensors checkpoint was converted and its directory returned
C4_Witness ==
    /\ last.op = "get_model"
    /\ last.exc = "none"
    /\ last.delegated
    /\ last.converter = "ok"
    /\ LastStanza["format"] = "safetensors"
    /\ last.ret_location = ConvertedPath(LastStanza)

\* C5: the hash of a successful get_model is the ModelCache's hash of the
\* location returned with it, also after a submodel override, and the
\* no-hash sentinel for lora and textual_inversion.
C5_HashOfReturnedLocation ==
    (last.op = "get_model" /\ last.exc = "none") =>
        IF last.type \in {"lora", "textual_inversion"}
        THEN last.ret_hash = NoHash
        ELSE last.ret_hash = HashOf(last.ret_location, last.ret_revision)

\* the location of an override: its path, else its repo_id
C6_OverrideLocation(override) ==
    IF override.path # None THEN override.path ELSE override.repo_id

\* C6: with a submodel that the stanza overrides by a path or a repo_id, the
\* ModelCache is asked for the override's location with the submodel as the
\* type and no submodel, and the info returned carries that location and
\* type; with a submodel the stanza does not override, it is asked for the
\* parent's location and type together with the submodel.  A successful
\* get_model has asked the ModelCache.
C6_SubmodelOverride ==
    (last.op = "get_model" /\ LastKnown /\ last.submodel # "none") =>
        /\ last.exc = "none" => last.cache_call.made
        /\ (last.cache_call.made /\ LastRedirected
            /\ C6_OverrideLocation(LastStanza[last.submodel]) # None)
              => /\ last.cache_call.location
                      = C6_OverrideLocation(LastStanza[last.submodel])
                 /\ last.cache_call.type = last.submodel
                 /\ last.cache_call.submodel = "none"
                 /\ last.exc = "none"
                 /\ last.ret_location = last.cache_call.location
                 /\ last.ret_type = last.submodel
        /\ (last.cache_call.made /\ ~ LastRedirected)
              => /\ last.cache_call.location = last.resolved
                 /\ last.cache_call.type = last.type
                 /\ last.cache_call.submodel = last.submodel

\* the vae of a model was fetched from the override the stanza declares
C6_Witness ==
    /\ last.op = "get_model"
    /\ last.exc = "none"
    /\ last.submodel = "vae"
    /\ LastRedirected
    /\ last.cache_call.location = VaeP
    /\ last.cache_call.type = "vae"
    /\ last.ret_location = VaeP

\* C7: convert_ckpt_and_cache returns converted_ckpts_dir / stem of the
\* weights whenever it returns; once that directory exists a call neither
\* calls the converter nor resolves a VAE and returns the same path; and no
\* directory is converted twice.
C7_Idempotent ==
    [][/\ \A t \in Targets : converted'[t] <= 1
       /\ last'.op = "convert_ckpt_and_cache" =>
            LET stanza == config[create_key(last'.name, last'.type)]
            IN  /\ last'.exc = "none"
                      => last'.ret_location = ConvertedPath(stanza)
                /\ ("weights" \in DOMAIN stanza
                    /\ converted[ConvertedPath(stanza)] > 0)
                      => /\ last'.exc = "none"
                         /\ last'.converter = "none"
                         /\ ~ last'.vae_resolved
                         /\ last'.ret_location = ConvertedPath(stanza)
                         /\ converted' = converted]_vars

\* a second call found the directory the first had converted
C7_Witness ==
    /\ last.op = "convert_ckpt_and_cache"
    /\ last.exc = "none"
    /\ last.converter = "none"
    /\ last.ret_location = ConvertedPath(LastStanza)
    /\ converted[ConvertedPath(LastStanza)] = 1

\* C8: when the converter raises in a get_model, the failure is logged, no
\* location is returned and no exception reaches the caller.
C8_ConverterFailureContained ==
    (last.op = "get_model" /\ last.converter = "raise") =>
        /\ last.exc = "none"
        /\ last.logged # "none"
        /\ last.ret_location = None

\* C9: when the converter raises in convert_and_import, no exception reaches
\* the caller, nothing (no model name) is returned, the store is as it was and
\* nothing is committed.
C9_ImportFailureReturnsNothing ==
    [][(last'.op = "convert_and_import" /\ last'.converter = "raise")
       => /\ last'.exc = "none"
          /\ last'.ret_name = None
          /\ config' = config
          /\ persisted' = persisted
          /\ ~ last'.committed]_vars

\* the sibling VAE file of the weights that convert_ckpt_and_cache prefers
C10_Sibling(weights) ==
    LET at(x) == SubSeq(weights, 1, Len(weights) - 2) \o <<Dot, "vae", Dot, x>>
    IN  IF at("safetensors") \in files THEN at("safetensors")
        ELSE IF at("ckpt") \in files THEN at("ckpt")
        ELSE IF at("pt") \in files THEN at("pt")
        ELSE None

\* C10: on a cache miss the converter gets exactly one VAE, chosen in this
\* order: a sibling <stem>.vae.<suffix> file as a path; else a string vae
\* field as a path; else a structured vae field naming a path or a repo_id
\* as an object loaded through the ModelCache; else (also for a structured
\* vae field naming neither) the fixed public VAE as an object.
C10_VaeTiers ==
    (last.op \in {"get_model", "convert_ckpt_and_cache"}
     /\ last.converter # "none") =>
        LET weights == RootDir \o <<Slash>> \o LastStanza["weights"]
            sibling == C10_Sibling(weights)
            vae == IF "vae" \in DOMAIN LastStanza THEN LastStanza["vae"]
                   ELSE NoVaeStanza
            a == last.conv_args
        IN  IF sibling # None
            THEN a.vae_path = sibling /\ a.vae = None
            ELSE IF vae.kind = "str"
            THEN a.vae_path = RootDir \o <<Slash>> \o vae.value /\ a.vae = None
            ELSE IF vae.path # None
            THEN a.vae = RootDir \o <<Slash>> \o vae.path /\ a.vae_path = None
            ELSE IF vae.repo_id # None
            THEN a.vae = vae.repo_id /\ a.vae_path = None
            ELSE a.vae = DefaultVae /\ a.vae_path = None

---------------------------------------------------------------------------
(* The claims about the migrator *)

\* the last step was a run of the migrator
C11_Ran == last'.op = "_update_config_file_version"

\* C11: a run of the migrator on a store whose _version is the current
\* version raises nothing and leaves the store, its version tag and order,
\* the document at the configuration path and the backup as they were; and a
\* run that migrates leaves a store of the current version, on which a second
\* run is then such a no-op.
C11_MigrateCurrentNoOp ==
    [][C11_Ran =>
         /\ version = <<3, 0, 0>>
               => /\ last'.exc = "none"
                  /\ config' = config
                  /\ version' = version
                  /\ order' = order
                  /\ persisted' = persisted
                  /\ backup' = backup
         /\ (last'.exc = "none" /\ last'.logged # "none")
               => version' = <<3, 0, 0>>]_vars

\* a second run found the store the first run had migrated and backed up
C11_Witness ==
    /\ last.op = "_update_config_file_version"
    /\ last.logged = "none"
    /\ version = <<3, 0, 0>>
    /\ backup.exists
    /\ backup.models # Empty
    /\ backup.version # <<3, 0, 0>>
    /\ persisted.version = <<3, 0, 0>>

\* the store is older than the current schema: its tag, 1.0.0 if it has
\* none, is below 3.0.0
C12_Older == version = None \/ version[1] < 3

\* a genuine model stanza: its config does not mark a legacy vae
C12_Genuine(stanza) ==
    ~ ("config" \in DOMAIN stanza
       /\ \E i \in 1..Len(stanza["config"]) - 2 :
             SubSeq(stanza["config"], i, i + 2) = <<"/", "VAE", "/">>)

\* a bare key k becomes diffusers/k, a prefixed key is kept
C12_NewKey(k) ==
    IF \E i \in 1..Len(k) : k[i] = "/" THEN k ELSE <<"diffusers", "/">> \o k

\* the weights of the stanza end in "." ext
C12_WeightsEnd(stanza, ext) ==
    /\ "weights" \in DOMAIN stanza
    /\ Len(stanza["weights"]) >= 3
    /\ SubSeq(stanza["weights"], Len(stanza["weights"]) - 1,
              Len(stanza["weights"])) = <<".", ext>>

\* the format re-derived from an old stanza
C12_Format(stanza) ==
    IF "format" \in DOMAIN stanza /\ stanza["format"] = "diffusers" THEN "folder"
    ELSE IF C12_WeightsEnd(stanza, "ckpt") THEN "ckpt"
    ELSE IF C12_WeightsEnd(stanza, "safetensors") THEN "safetensors"
    ELSE IF "format" \in DOMAIN stanza THEN stanza["format"]
    ELSE "none"

\* C12: a migration of an older store gives every genuine stanza of key k
\* the entry C12_NewKey(k) with the format re-derived from that stanza; the
\* new store has no other entries (none for a legacy vae) and its _version
\* is the current version.
C12_MigrationMapsEveryStanza ==
    [][(C11_Ran /\ last'.exc = "none" /\ C12_Older) =>
         /\ version' = <<3, 0, 0>>
         /\ \A k \in DOMAIN config :
               C12_Genuine(config[k]) =>
                  /\ C12_NewKey(k) \in DOMAIN config'
                  /\ config'[C12_NewKey(k)]["format"] = C12_Format(config[k])
         /\ \A n \in DOMAIN config' :
               \E k \in DOMAIN config :
                  C12_Genuine(config[k]) /\ C12_NewKey(k) = n]_vars

\* the fields the migrator is said to copy
C13_AllowList == {"repo_id", "path", "weights", "config", "vae"}

\* the fields of new_stanza that are among the allow-list are copied from
\* the genuine stanza of the old key k, which becomes new_key
C13_CopiedFrom(k, new_key, new_stanza) ==
    /\ C12_Genuine(config[k])
    /\ C12_NewKey(k) = new_key
    /\ \A f \in DOMAIN new_stanza \cap C13_AllowList :
          f \in DOMAIN config[k] /\ new_stanza[f] = config[k][f]

\* C13 as claimed: every field of a migrated stanza other than its format is
\* one of repo_id, path, weights, config, vae, copied from the old stanza.
C13_Original ==
    [][(C11_Ran /\ last'.exc = "none" /\ C12_Older) =>
         \A n \in DOMAIN config' :
            /\ DOMAIN config'[n] \subseteq C13_AllowList \cup {"format"}
            /\ \E k \in DOMAIN config : C13_CopiedFrom(k, n, config'[n])]_vars

\* C13 as amended: every field of a migrated stanza other than its format
\* and its description is one of repo_id, path, weights, config, vae, copied
\* from the old stanza; the description is always there, the old stanza's or
\* None; default, revision, width and height are absent.
C13_AllowListOnly ==
    [][(C11_Ran /\ last'.exc = "none" /\ C12_Older) =>
         \A n \in DOMAIN config' :
            /\ DOMAIN config'[n]
                  \subseteq C13_AllowList \cup {"format", "description"}
            /\ \E k \in DOMAIN config :
                  /\ C13_CopiedFrom(k, n, config'[n])
                  /\ "description" \in DOMAIN config'[n]
                  /\ config'[n]["description"]
                        = IF "description" \in DOMAIN config[k]
                          THEN config[k]["description"] ELSE <<>>]_vars

\* a stanza with a default flag, a revision and a size was migrated: its
\* weights were kept, those fields were dropped
C13_Witness ==
    /\ last.op = "_update_config_file_version"
    /\ last.logged # "none"
    /\ last.exc = "none"
    /\ backup.exists
    /\ \E k \in DOMAIN backup.models :
          /\ {"default", "revision", "width", "weights"}
                \subseteq DOMAIN backup.models[k]
          /\ C12_NewKey(k) \in DOMAIN config
          /\ "weights" \in DOMAIN config[C12_NewKey(k)]
          /\ DOMAIN config[C12_NewKey(k)]
                \cap {"default", "revision", "width", "height"} = {}

\* C14: when the migrator has run on a file-backed store of an older
\* version, the backup holds the document that was at the configuration
\* path and the configuration path holds the new store with the current
\* _version; when the rename to the backup fails, the call raises and the
\* document, the backup and the store in memory are as they were.
C14_BackupAndRewrite ==
    [][(C11_Ran /\ C12_Older /\ config_path # <<>>) =>
         /\ last'.rename \in {"ok", "raise"}
         /\ last'.rename = "ok"
               => /\ last'.exc = "none"
                  /\ backup' = persisted
                  /\ persisted'.exists
                  /\ persisted'.version = <<3, 0, 0>>
                  /\ persisted'.models = config'
                  /\ version' = <<3, 0, 0>>
         /\ last'.rename = "raise"
               => /\ last'.exc # "none"
                  /\ persisted' = persisted
                  /\ backup' = backup
                  /\ config' = config
                  /\ version' = version
                  /\ order' = order]_vars

\* an old document with a model was backed up and rewritten
C14_Witness ==
    /\ last.op = "_update_config_file_version"
    /\ last.rename = "ok"
    /\ backup.exists
    /\ backup.version = <<2, 0, 0>>
    /\ <<"a">> \in DOMAIN backup.models
    /\ persisted.version = <<3, 0, 0>>
    /\ <<"diffusers", "/", "a">> \in DOMAIN persisted.models

---------------------------------------------------------------------------
(* The claims about the default model and del_model *)

\* the keys of type t whose stanza in cfg carries default = true
C18_Defaults(cfg, t) ==
    {k \in DOMAIN cfg :
        /\ k[1] = t
        /\ "default" \in DOMAIN cfg[k]
        /\ cfg[k]["default"] = TRUE}

\* C18: after a set_default_model(name, type) that returned, at most one
\* stanza of that type carries default = true.
C18_AtMostOneDefault ==
    (last.op = "set_default_model" /\ last.exc = "none") =>
        Cardinality(C18_Defaults(config, last.type)) <= 1

\* the call returned on a store in which two stanzas of the type carried the
\* flag (the document on disk still shows them)
C18_Witness ==
    /\ last.op = "set_default_model"
    /\ last.exc = "none"
    /\ Cardinality(C18_Defaults(persisted.models, last.type)) >= 2
    /\ Cardinality(C18_Defaults(config, last.type)) <= 1

\* C19: after set_default_model(name, type) on a model of the store, the
\* stanza type/name carries default = true and default_model() returns
\* (name, type); on a model not in the store the call raises and the store is
\* as it was.
C19_DefaultIsTheOneSet ==
    [][last'.op = "set_default_model" =>
         IF <<last'.type, "/">> \o last'.name \in DOMAIN config
         THEN /\ last'.exc = "none"
              /\ <<last'.type, "/">> \o last'.name
                    \in C18_Defaults(config', last'.type)
              /\ default_model(config', order').exc = "none"
              /\ default_model(config', order').name = last'.name
              /\ default_model(config', order').type = last'.type
         ELSE /\ last'.exc # "none"
              /\ config' = config]_vars

\* C20: a del_model on a key that is not in the store logs an error, raises
\* nothing and leaves the store, the cache keys and the disk as they were.
C20_DelUnknownIsLogged ==
    [][(last'.op = "del_model"
        /\ <<last'.type, "/">> \o last'.name \notin DOMAIN config)
       => /\ last'.exc = "none"
          /\ last'.logged = "error"
          /\ config' = config
          /\ cache_keys' = cache_keys
          /\ files' = files
          /\ dirs' = dirs]_vars

---------------------------------------------------------------------------
(* The claims about scan_models_directory *)

\* the entries of the disk at a directory the scan registers from: two
\* levels or more below the models directory
C15_Entries ==
    {p \in files \cup dirs : Below(p, ModelsPath) /\ Len(Subpaths(p)) >= 3}

\* the type directory, the base directory and the name of an entry
C15_Type(p) == Subpaths(p)[2]
C15_Base(p) == Subpaths(p)[1]
C15_Name(p) == Subpaths(p)[Len(Subpaths(p))]

\* type/basename: the name of a directory, the stem of a file
C15_Key(p) ==
    C15_Type(p) \o <<Slash>>
    \o (IF p \in dirs THEN C15_Name(p) ELSE Stem(C15_Name(p)))

\* the stanza has the path, the format and the base of the entry p
C15_Describes(stanza, p) ==
    /\ {"path", "format", "base"} \subseteq DOMAIN stanza
    /\ stanza["path"] = p
    /\ stanza["format"] = (IF p \in dirs THEN "folder"
                           ELSE IF Len(C15_Name(p)) = Len(Stem(C15_Name(p)))
                           THEN ""
                           ELSE C15_Name(p)[Len(C15_Name(p))])
    /\ stanza["base"] = C15_Base(p)

\* no stanza of the store has the path of an entry fewer than two levels
\* below the models directory
C15_NoneAbove ==
    \A p \in files \cup dirs :
        Below(p, ModelsPath) /\ Len(Subpaths(p)) < 3
        => \A k \in DOMAIN config :
               "path" \in DOMAIN config[k]
               => Join(RootDir, config[k]["path"]) # p

\* C15 as stated: after a scan, every file and every directory at
\* <models root>/<base>/<type>/<entry> with a type other than diffusers has
\* the key type/basename in the store, with the path of that entry, its
\* format and its base; no entry higher up has a descriptor
C15_EveryEntryIsRegistered ==
    last.op = "scan_models_directory"
    => /\ \A p \in C15_Entries :
              Len(Subpaths(p)) = 3 /\ C15_Type(p) # <<"diffusers">>
              => /\ C15_Key(p) \in DOMAIN config
                 /\ C15_Describes(config[C15_Key(p)], p)
       /\ C15_NoneAbove

\* C15 (amended): after a scan, every such entry has its key type/basename
\* in the store, and the descriptor of that key has the path, format and
\* base of an entry of that type and basename: of the entry itself when no
\* other entry has its type and basename, else of the one walked last; no
\* entry higher up has a descriptor
C15_EveryKeyIsRegistered ==
    last.op = "scan_models_directory"
    => /\ \A p \in C15_Entries :
              Len(Subpaths(p)) = 3 /\ C15_Type(p) # <<"diffusers">>
              => /\ C15_Key(p) \in DOMAIN config
                 /\ \E q \in C15_Entries :
                       /\ C15_Key(q) = C15_Key(p)
                       /\ C15_Describes(config[C15_Key(p)], q)
       /\ C15_NoneAbove

\* a scan of a disk with the lora file alone under its key, and with a file
\* one level below the models directory
C15_Witness ==
    /\ last.op = "scan_models_directory"
    /\ ScanLoraFile \in files
    /\ ScanLoraFile2 \notin files
    /\ ScanLoraDir \notin dirs
    /\ ScanTopFile \in files
    /\ <<"lora", Slash, "foo">> \in DOMAIN config
    /\ config[<<"lora", Slash, "foo">>]["format"] = "safetensors"
    /\ config[<<"lora", Slash, "foo">>]["base"] = <<"SD-1">>

\* C16: after a scan every descriptor that has a path has one that is on
\* the disk (the descriptors whose path vanished were removed), and a
\* descriptor without a path keeps its key through the scan
C16_PruneVanishedPaths ==
    [][last'.op = "scan_models_directory"
       => /\ \A k \in DOMAIN config' :
                 "path" \in DOMAIN config'[k]
                 => OnDisk(Join(RootDir, config'[k]["path"]), files', dirs')
          /\ \A k \in DOMAIN config :
                 "path" \notin DOMAIN config[k] => k \in DOMAIN config']_vars

\* a scan that removed a descriptor and kept the one without a path
C16_Witness ==
    /\ last.op = "scan_models_directory"
    /\ last.logged = "warning"
    /\ <<"vae", Slash, "r">> \in DOMAIN config
    /\ "path" \notin DOMAIN config[<<"vae", Slash, "r">>]

\* the stanza has a path in the diffusers directory of a base, at any depth
C17_UnderDiffusers(stanza) ==
    /\ "path" \in DOMAIN stanza
    /\ Below(Join(RootDir, stanza["path"]), ModelsPath)
    /\ Len(Subpaths(Join(RootDir, stanza["path"]))) >= 3
    /\ Subpaths(Join(RootDir, stanza["path"]))[2] = <<"diffusers">>

\* C17: a scan without include_diffusers creates or overwrites no descriptor
\* of an entry under <base>/diffusers/; a scan with it registers these
\* entries under their keys like those of any other type
C17_DiffusersOnlyOnRequest ==
    [][last'.op = "scan_models_directory"
       => IF ~ last'.include_diffusers
          THEN \A k \in DOMAIN config' :
                  C17_UnderDiffusers(config'[k])
                  => k \in DOMAIN config /\ config'[k] = config[k]
          ELSE \A p \in {q \in files' \cup dirs' :
                             /\ Below(q, ModelsPath)
                             /\ Len(Subpaths(q)) >= 3
                             /\ Subpaths(q)[2] = <<"diffusers">>} :
                  \E k \in DOMAIN config' :
                      /\ k[1] = "diffusers"
                      /\ "path" \in DOMAIN config'[k]
                      /\ config'[k]["path"] = p]_vars

\* a scan without include_diffusers of a disk with a diffusers model, that
\* left the store without its key
C17_Witness ==
    /\ last.op = "scan_models_directory"
    /\ ~ last.include_diffusers
    /\ ScanDiffusersDir \in dirs
    /\ ScanIndexFile \in files
    /\ \A k \in DOMAIN config : ~ C17_UnderDiffusers(config[k])

---------------------------------------------------------------------------
(* The claims about the facade's write operations *)

\* C21: every key of the cache-key mapping is a key of the store, and after
\* del_model(k) the mapping has no entry for k
C21_CacheKeysAreStoreKeys ==
    /\ \A k \in DOMAIN cache_keys : k \in DOMAIN config
    /\ last.op = "del_model"
       => create_key(last.name, last.type) \notin DOMAIN cache_keys

\* whether the attributes hold the fields lines 621-639 ask for
C22_Complete(model_type, a) ==
    IF model_type = "diffusers"
    THEN IF "weights" \in DOMAIN a
         THEN {"description", "weights", "config"} \subseteq DOMAIN a
         ELSE "description" \in DOMAIN a
              /\ ("path" \in DOMAIN a \/ "repo_id" \in DOMAIN a)
    ELSE {"weights", "description"} \subseteq DOMAIN a

\* C22: an add_model without clobber on a key of the store, or with
\* attributes that lack a required field, ends in an error and leaves the
\* store and the cache-key mapping as they were
C22_RejectedAddChangesNothing ==
    [][/\ last'.op = "add_model"
       /\ \/ ~ last'.clobber
             /\ create_key(last'.name, last'.type) \in DOMAIN config
          \/ ~ C22_Complete(last'.type, last'.attributes)
       => /\ last'.exc # "none"
          /\ config' = config
          /\ order' = order
          /\ cache_keys' = cache_keys]_vars

\* an add_model without clobber on a key of the store that has a cache key
C22_Witness ==
    /\ last.op = "add_model"
    /\ ~ last.clobber
    /\ last.exc # "none"
    /\ create_key(last.name, last.type) \in DOMAIN config
    /\ create_key(last.name, last.type) \in DOMAIN cache_keys
    /\ config[create_key(last.name, last.type)] # last.attributes

\* C23: an add_model of a key that is not in the store, with all required
\* fields, succeeds: the store then maps the key to the attributes and holds
\* every other descriptor as before
C23_AddNewModelSucceeds ==
    [][/\ last'.op = "add_model"
       /\ <<last, config>> # <<last', config'>>
       /\ create_key(last'.name, last'.type) \notin DOMAIN config
       /\ C22_Complete(last'.type, last'.attributes)
       => /\ last'.exc = "none"
          /\ create_key(last'.name, last'.type) \in DOMAIN config'
          /\ config'[create_key(last'.name, last'.type)] = last'.attributes
          /\ \A k \in DOMAIN config : k \in DOMAIN config' /\ config'[k] = config[k]]_vars

\* C30: the document at the configuration path changes in a commit only;
\* after a commit that did not fail it holds the in-memory store; a commit
\* leaves the store as it was and, when no path is known, fails and writes
\* nothing
C30_PersistedOnlyOnCommit ==
    [][/\ persisted' # persisted => last'.op = "commit"
       /\ last'.op = "commit"
          => /\ config' = config /\ order' = order /\ version' = version
             /\ last'.exc = "none" => persisted' = Doc(version, config)
             /\ last'.exc # "none" => persisted' = persisted
             /\ last'.conf_file = None /\ config_path = None
                => last'.exc # "none"]_vars

\* a commit of a store that an operation had changed in memory since the
\* document was written
C30_Witness ==
    /\ last.op = "commit"
    /\ last.exc = "none"
    /\ persisted = Doc(version, config)
    /\ \E k \in DOMAIN config : "default" \in DOMAIN config[k]

---------------------------------------------------------------------------
(* The claims about concurrent callers *)

\* C24: at every instant the document at the configuration path is a
\* complete document written by one commit, never an empty or a partly
\* written one
C24_DocumentAlwaysComplete ==
    /\ inodes.conf # 0
    /\ inodes.content[inodes.conf] \in CompleteDocuments

\* the caller t makes the test of the converted directory in this step
C25_Begins(t) ==
    /\ threads[t].pc \in {"idle", "done"}
    /\ threads'[t] # threads[t]

\* C25: nothing excludes two callers from the converter: a caller that finds
\* the converted directory absent goes on to the converter whatever the
\* other caller is doing, so that both can be converting to one directory
C25_NoMutualExclusion ==
    [][\A t \in Threads :
          C25_Begins(t) /\ ~ Exists(converted, threads'[t].target)
          => threads'[t].pc = "converting"]_vars

\* both callers have found the directory absent and are in the converter
\* for the same converted directory
C25_Witness ==
    /\ threads[1].pc = "converting"
    /\ threads[2].pc = "converting"
    /\ threads[1].target = threads[2].target
    /\ ~ Exists(converted, threads[1].target)

\* C26: the converted directory is named by the stem of the weights alone,
\* and a caller that finds it is returned it without any conversion and
\* without an error, whatever weights it was converted from
C26_StemCollision ==
    [][\A t \in Threads :
          C25_Begins(t) /\ Exists(converted, threads'[t].target)
          => /\ threads'[t].target
                  = ConvertedDir \o <<Slash>> \o Stem(threads'[t].weights)
             /\ threads'[t].pc = "done"
             /\ threads'[t].ret = threads'[t].target
             /\ threads'[t].exc = "none"
             /\ threads'[t].converter = "none"
             /\ converted' = converted
             /\ artifacts' = artifacts]_vars

\* a caller was returned, without a conversion, the directory converted from
\* another weights file of the same stem
C26_Witness ==
    \E t \in Threads :
        /\ threads[t].pc = "done"
        /\ threads[t].converter = "none"
        /\ threads[t].exc = "none"
        /\ threads[t].ret = threads[t].target
        /\ converted[threads[t].target] = 1
        /\ artifacts[threads[t].target] # threads[t].weights
        /\ Stem(artifacts[threads[t].target]) = Stem(threads[t].weights)

---------------------------------------------------------------------------
(* The claims about heuristic_import *)

\* a string of the shape namespace/name
C27_NameShaped(thing) ==
    \E i \in 2..(Len(thing) - 1) :
        /\ thing[i] = Slash
        /\ \A j \in 1..Len(thing) : j # i => thing[j] \notin NonWordTokens

\* the reference is no URL, no checkpoint file on disk, no directory on
\* disk and no string of the shape namespace/name
C27_Unrecognized(thing) ==
    /\ ~ (Len(thing) > 0 /\ thing[1] \in {"http:", "https:", "ftp:"})
    /\ ~ (thing \in files /\ thing[Len(thing)] \in {"ckpt", "safetensors"})
    /\ thing \notin dirs
    /\ ~ C27_NameShaped(thing)

\* C27: heuristic_import of a reference that is none of these reports it as
\* unrecognized, returns no name, and leaves the store and the
\* configuration file as they were
C27_UnknownThingIsReported ==
    [][last'.op = "heuristic_import" /\ C27_Unrecognized(last'.thing)
       => /\ last'.logged = "unknown thing"
          /\ last'.exc = "none"
          /\ last'.ret_name = None
          /\ config' = config
          /\ cache_keys' = cache_keys
          /\ persisted' = persisted]_vars

\* an import of a string that is none of these, and of a checkpoint file
\* that is not on the disk
C27_Witness ==
    /\ last.op = "heuristic_import"
    /\ last.thing \in {<<"no such thing">>, InDir \o <<Slash, "gone", Dot, "ckpt">>}
    /\ last.logged = "unknown thing"
    /\ last.ret_name = None

\* C28: heuristic_import returns a name only when the model of that name
\* was imported, and the import of a diffusers directory and of a
\* repository name returns the name of the model
C28_NameIffImported ==
    last.op = "heuristic_import"
    => /\ last.ret_name # None
          => /\ last.exc = "none"
             /\ create_key(last.ret_name, "diffusers") \in DOMAIN config
       /\ ThingKind(last.thing, files, dirs) \in {"diffusers_dir", "repo_id"}
          => last.exc = "none" /\ last.ret_name # None

\* C29: the import of a plain directory tries every checkpoint file found,
\* and every file whose conversion succeeded is registered in the store
C29_BatchRegistersTheConverted ==
    last.op = "heuristic_import" /\ ThingKind(last.thing, files, dirs) = "dir"
    => /\ {last.attempts[i].path : i \in 1..Len(last.attempts)}
            = {f \in files : Below(f, last.thing)
                             /\ f[Len(f)] \in {"ckpt", "safetensors"}}
       /\ \A i \in 1..Len(last.attempts) :
              last.attempts[i].outcome = "ok" /\ last.attempts[i].ret # None
              => create_key(Stem(last.attempts[i].path), "diffusers")
                    \in DOMAIN config

---------------------------------------------------------------------------
(* The claims about probe_model_type *)

\* the dictionary the tensors are looked up in
C31_Tensors(c) ==
    IF "state_dict" \in DOMAIN c /\ DOMAIN c["state_dict"] # {}
    THEN c["state_dict"] ELSE c

C31_StepIs(c, n) == "global_step" \in DOMAIN c /\ c["global_step"] = n

\* the decision table
C31_Table(c) ==
    LET t == C31_Tensors(c)
    IN  IF AttnKey \in DOMAIN t /\ t[AttnKey][Len(t[AttnKey])] = 1024
        THEN CASE C31_StepIs(c, 220000) -> "V2_e"
               [] C31_StepIs(c, 110000) -> "V2_v"
               [] OTHER -> "V2"
        ELSE IF ConvKey \notin DOMAIN t THEN "UNKNOWN"
        ELSE CASE t[ConvKey][2] = 9 -> "V1_INPAINT"
               [] t[ConvKey][2] = 4 -> "V1"
               [] OTHER -> "UNKNOWN"

\* C31: probe_model_type raises nothing and returns the type the decision
\* table gives for the checkpoint's tensor shapes and global_step
C31_ProbeEqualsTable ==
    output.stage = "probe_model_type"
    => output.exc = "none" /\ output.type = C31_Table(input)

\* a checkpoint with the 1024-wide cross-attention tensor and a first
\* convolution of 9 input channels, trained for 220000 steps
C31_Witness ==
    /\ output.stage = "probe_model_type"
    /\ AttnKey \in DOMAIN C31_Tensors(input)
    /\ C31_Tensors(input)[AttnKey] = <<320, 1024>>
    /\ ConvKey \in DOMAIN C31_Tensors(input)
    /\ C31_Tensors(input)[ConvKey][2] = 9
    /\ C31_StepIs(input, 220000)
    /\ output.type = "V2_e"

---------------------------------------------------------------------------
(* The claims about the stanzas and the keys of the store *)

C32_Locations(stanza) == {"path", "repo_id", "weights"} \cap DOMAIN stanza

C34_EveryKeyHasAType ==
    output.stage = "ready"
    => /\ \A key \in DOMAIN config : parse_key(key).exc = "none"
       /\ model_names(config, order).exc = "none"

---------------------------------------------------------------------------
(* The claims about parse_key on a key of no type *)

\* the key holds a "/" and what precedes the first one is no member of
\* SDModelType
C33_UnknownPrefix(key) ==
    \E i \in 1..Len(key) :
        /\ key[i] = Slash
        /\ \A j \in 1..(i - 1) : key[j] # Slash
        /\ ~ (i = 2 /\ key[1] \in SDModelType)

---------------------------------------------------------------------------
(* The claims about default_model, the migrated keys and the frame of
   set_default_model *)

\* the keys whose stanza carries default = true
C35_Flagged == {k \in DOMAIN config : "default" \in DOMAIN config[k]
                                      /\ config[k]["default"] = TRUE}

\* C35: default_model() returns the name and type of a stanza that carries
\* default = true when there is one, and None when there is none, the empty
\* store included
C35_DefaultOrNone ==
    last.op = "default_model"
    => /\ last.exc = "none"
       /\ IF C35_Flagged # {}
          THEN last.ret_type \in SDModelType
               /\ create_key(last.ret_name, last.ret_type) \in C35_Flagged
          ELSE last.ret_name = None /\ last.ret_type = "none"

\* the genuine stanzas of the store
C37_GenuineKeys(cfg) == {k \in DOMAIN cfg : C12_Genuine(cfg[k])}

\* C37: a migration gives distinct keys of genuine stanzas distinct new
\* keys, so that the migrated store has as many entries as the old store had
\* genuine stanzas
C37_MigrationLosesNoStanza ==
    [][(C11_Ran /\ last'.exc = "none" /\ C12_Older) =>
         /\ \A k1, k2 \in C37_GenuineKeys(config) :
               k1 # k2 => migrate_key(k1) # migrate_key(k2)
         /\ Cardinality(DOMAIN config')
               = Cardinality(C37_GenuineKeys(config))]_vars

\* C38 as stated: a set_default_model(name, type) that returned left every
\* stanza of another type as it was, its default flag included, and changed
\* no field but default in the stanzas of its own type
C38_Original ==
    [][(last'.op = "set_default_model" /\ last'.exc = "none") =>
         /\ DOMAIN config' = DOMAIN config
         /\ \A k \in DOMAIN config :
               /\ k[1] # last'.type => config'[k] = config[k]
               /\ Pop(config'[k], "default") = Pop(config[k], "default")]_vars

\* the keys whose stanza has a default field
C38_WithFlag(cfg) == {k \in DOMAIN cfg : "default" \in DOMAIN cfg[k]}

\* C38, amended: a set_default_model(name, type) that returned changed
\* nothing but default fields: the store has the same keys, every other
\* field of every stanza is as it was, and the default field is removed from
\* the stanzas of every type but the one stanza that now carries it
C38_OnlyDefaultFlags ==
    [][(last'.op = "set_default_model" /\ last'.exc = "none") =>
         /\ DOMAIN config' = DOMAIN config
         /\ \A k \in DOMAIN config :
               Pop(config'[k], "default") = Pop(config[k], "default")
         /\ Cardinality(C38_WithFlag(config')) = 1
         /\ \A k \in C38_WithFlag(config') : config'[k]["default"] = TRUE]_vars

\* the call returned on a store in which a stanza of another type carried
\* the flag (the document on disk still shows it), and it no longer does
C38_Witness ==
    /\ last.op = "set_default_model"
    /\ last.exc = "none"
    /\ \E k \in DOMAIN config :
          /\ k[1] # last.type
          /\ k \in DOMAIN persisted.models
          /\ k \in C38_WithFlag(persisted.models)
          /\ persisted.models[k]["default"] = TRUE
          /\ k \notin C38_WithFlag(config)

---------------------------------------------------------------------------
(* The claims about the checkpoints heuristic_import skips *)

\* the reference is a checkpoint file on the disk that is no part of a
\* diffusers model, imported under the name of the file
C36_CheckpointFile(thing, name) ==
    /\ thing \in files
    /\ thing[Len(thing)] \in {"ckpt", "safetensors"}
    /\ Stem(thing) \notin {<<"model">>, <<"diffusion_pytorch_model">>}
    /\ name = None

\* C36: heuristic_import of a checkpoint file whose model the store already
\* holds converts nothing, leaves the store as it was and returns the name of
\* the model; and when no configuration file is found for a checkpoint, the
\* call returns nothing and leaves the store and the converted directories
\* as they were
C36_SkipsRegisteredAndUnknown ==
    [][(last'.op = "heuristic_import"
        /\ C36_CheckpointFile(last'.thing, last'.name)) =>
         /\ create_key(Stem(last'.thing), "diffusers") \in DOMAIN config
            => /\ converted' = converted
               /\ config' = config
               /\ cache_keys' = cache_keys
               /\ last'.ret_name = Stem(last'.thing)
         /\ (create_key(Stem(last'.thing), "diffusers") \notin DOMAIN config
             /\ last'.converter = "no_config")
            => /\ last'.ret_name = None
               /\ last'.exc = "none"
               /\ converted' = converted
               /\ config' = config
               /\ cache_keys' = cache_keys]_vars

---------------------------------------------------------------------------
(* The claims about the scan script *)

\* C39: the scan script never fails, and the stanzas it writes are those
\* that scan_models_directory(include_diffusers=True) adds to an empty store
\* for the same models directory: one for every file and every directory at
\* least two levels below the models directory, with the type and the base
\* of its own path
C39_ScriptEqualsManager ==
    output.stage = "scan_script"
    => /\ output.exc = "none"
       /\ output.conf = scan_models_directory(Empty, <<>>, files, dirs, TRUE,
                                              input).config

====
